---- MODULE Spec2Model ----
(***************************************************************************)
(* The binary codec layer of PyRDP: the Connection Data parsers            *)
(* (pyrdp/parser/rdp/connection.py) and the dynamic channel parser         *)
(* (pyrdp/parser/rdp/virtual_channel/dynamic_channel.py).                  *)
(*                                                                         *)
(* Bytes are naturals in 0..255 and a byte string is a sequence of them.   *)
(* A Python value that may be None is <<v>> when set and <<>> when None.   *)
(* An operation that may raise returns [err, val]: err = "" on success,    *)
(* otherwise the name of the exception it raises.                          *)
(***************************************************************************)
EXTENDS Integers, Sequences, FiniteSets, TLC

VARIABLES
    mode,    \* which entry point of the codec this run exercises
    pdu,     \* the structure handed to a write entry point
    wire,    \* the byte buffer: what write returned, or what parse is given
    pos,     \* the cursor of the stream that wraps the buffer
    locals,  \* the local variables of a parse loop in progress
    pc,      \* the position of the running entry point
    ret      \* what the parse entry point returned or raised

vars == <<mode, pdu, wire, pos, locals, pc, ret>>

-----------------------------------------------------------------------------
(* Bounds of the model *)

\* longest trailing byte string drawn (exhaustively) for a dynamic channel buffer
MaxTail == 3

\* longest payload of a hand-built dynamic channel PDU
MaxData == 2

\* most channel definitions in a network block
MaxChannels == 2

-----------------------------------------------------------------------------
(* Results, optional values, byte strings *)

Ok(v) == [err |-> "", val |-> v]

Fail(e) == [err |-> e, val |-> <<>>]

None == <<>>

Some(v) == <<v>>

Min(a, b) == IF a < b THEN a ELSE b

BoundedSeq(S, n) == UNION {[1..k -> S] : k \in 0..n}

Take(s, n) == SubSeq(s, 1, Min(n, Len(s)))

Drop(s, n) == SubSeq(s, Min(n, Len(s)) + 1, Len(s))

Zeros(n) == [i \in 1..n |-> 0]

\* the element of a set of one element; {e(x) : x \in {v}} has v evaluated once
Only(S) == CHOOSE x \in S : TRUE

RECURSIVE Flatten(_)
Flatten(ss) == IF ss = <<>> THEN <<>> ELSE ss[1] \o Flatten(Tail(ss))

Reverse(bs) == [i \in 1..Len(bs) |-> bs[Len(bs) + 1 - i]]

RECURSIVE StripLeadingZeros(_)
StripLeadingZeros(bs) ==
    IF bs = <<>> THEN <<>>
    ELSE IF bs[1] = 0 THEN StripLeadingZeros(Tail(bs))
    ELSE bs

RECURSIVE Pow2(_)
Pow2(n) == IF n = 0 THEN 1 ELSE 2 * Pow2(n - 1)

\* a | b on naturals
RECURSIVE BitOr(_, _)
BitOr(a, b) ==
    IF a = 0 THEN b
    ELSE IF b = 0 THEN a
    ELSE (IF a % 2 = 1 \/ b % 2 = 1 THEN 1 ELSE 0) + 2 * BitOr(a \div 2, b \div 2)

\* a & b on naturals
RECURSIVE BitAnd(_, _)
BitAnd(a, b) ==
    IF a = 0 \/ b = 0 THEN 0
    ELSE (IF a % 2 = 1 /\ b % 2 = 1 THEN 1 ELSE 0) + 2 * BitAnd(a \div 2, b \div 2)

-----------------------------------------------------------------------------
(* pyrdp.core: Uint8, Uint16LE, Uint32LE, StrictStream *)

\* the little-endian bytes of v, n of them
ToLE(v, n) == [i \in 1..n |-> (v \div Pow2(8 * (i - 1))) % 256]

\* The integer a byte string encodes, little-endian. TLC's integers are 32 bits
\* wide: an unsigned 32-bit value v >= 2^31 is carried as v - 2^32, the integer
\* with the same four bytes (ToLE above gives it those bytes back, \div rounding down).
RECURSIVE FromLE(_)
FromLE(bs) ==
    IF bs = <<>> THEN 0
    ELSE IF Len(bs) = 4 /\ bs[4] >= 128
         THEN FromLE(SubSeq(bs, 1, 3)) + (bs[4] - 256) * Pow2(24)
         ELSE bs[1] + 256 * FromLE(Tail(bs))

\* UintN.pack(value): struct.pack raises struct.error for None and for a value
\* that does not fit n bytes (every integer of the model fits four)
IntPack(opt, n) ==
    IF opt = None THEN Fail("struct.error")
    ELSE IF n < 4 /\ (opt[1] < 0 \/ opt[1] >= Pow2(8 * n)) THEN Fail("struct.error")
    ELSE Ok(ToLE(opt[1], n))

\* stream.read(n) on a BytesIO: what is there, at most n bytes. A negative n
\* reads all that is left: Python's read(-1), and a 32-bit size of 2^31 or more
\* (carried as a negative integer) alike.
StreamRead(data, p, n) ==
    LET end == IF n < 0 THEN Len(data) ELSE Min(p + n, Len(data))
    IN  [val |-> SubSeq(data, p + 1, end), pos |-> end]

\* stream.read(): all remaining bytes
StreamReadAll(data, p) == SubSeq(data, p + 1, Len(data))

\* UintN.unpack(stream) on a BytesIO: struct.unpack raises struct.error on a short read
IntUnpack(data, p, n) ==
    LET r == StreamRead(data, p, n)
    IN  IF Len(r.val) < n THEN [err |-> "struct.error", val |-> 0, pos |-> r.pos]
        ELSE [err |-> "", val |-> FromLE(r.val), pos |-> r.pos]

\* StrictStream.read(n): EOFError when the read cannot be satisfied. Every size
\* given to it is a constant or an unsigned 32-bit field, so a negative n is a
\* size of 2^31 or more.
StrictRead(data, p, n) ==
    LET r == StreamRead(data, p, n)
    IN  IF n < 0 \/ Len(r.val) < n THEN [err |-> "EOFError", val |-> <<>>, pos |-> r.pos]
        ELSE [err |-> "", val |-> r.val, pos |-> r.pos]

\* UintN.unpack(stream) on a StrictStream
StrictIntUnpack(data, p, n) ==
    LET r == StrictRead(data, p, n)
    IN  IF r.err # "" THEN [err |-> r.err, val |-> 0, pos |-> r.pos]
        ELSE [err |-> "", val |-> FromLE(r.val), pos |-> r.pos]

-----------------------------------------------------------------------------
(* pyrdp.enum.virtual_channel.dynamic_channel *)

CbIdValues == {0, 1, 2}

CREATE == 1
DATA_FIRST == 2
DATA == 3
CLOSE == 4
CAPABILITY_REQUEST == 5
DATA_FIRST_COMPRESSED == 6
DATA_COMPRESSED == 7

DynamicChannelCommandValues == 1..9

-----------------------------------------------------------------------------
(* pyrdp/pdu/rdp/virtual_channel/dynamic_channel.py *)

\* DynamicChannelPDU.__init__: CbId(cbid) and DynamicChannelCommand(cmd) raise
\* ValueError for a value that is no member of the enumeration
DynamicChannelPDUInit(cbid, sp, cmd) ==
    IF cbid \notin CbIdValues THEN Fail("ValueError")
    ELSE IF cmd \notin DynamicChannelCommandValues THEN Fail("ValueError")
    ELSE Ok([cbid |-> cbid, sp |-> sp, cmd |-> cmd])

WithBase(base, type, fields) ==
    IF base.err # "" THEN base
    ELSE Ok([type |-> type, cbid |-> base.val.cbid, sp |-> base.val.sp,
             cmd |-> base.val.cmd, fields |-> fields])

DynamicChannelPDU(cbid, sp, cmd, payload) ==
    WithBase(DynamicChannelPDUInit(cbid, sp, cmd), "DynamicChannelPDU",
             [payload |-> payload])

CapabilityResponsePDU(cbid, sp, capability) ==
    WithBase(DynamicChannelPDUInit(cbid, sp, CAPABILITY_REQUEST), "CapabilityResponsePDU",
             [capability |-> capability])

CreateRequestPDU(cbid, sp, channelId, channelName) ==
    WithBase(DynamicChannelPDUInit(cbid, sp, CREATE), "CreateRequestPDU",
             [channelId |-> channelId, channelName |-> channelName])

CreateResponsePDU(cbid, sp, channelId, creationStatus) ==
    WithBase(DynamicChannelPDUInit(cbid, sp, CREATE), "CreateResponsePDU",
             [channelId |-> channelId, creationStatus |-> creationStatus])

DynamicDataFirstPDU(cbid, sp, channelId, length, data) ==
    WithBase(DynamicChannelPDUInit(cbid, sp, DATA_FIRST), "DynamicDataFirstPDU",
             [channelId |-> channelId, length |-> length, data |-> data])

DynamicDataPDU(cbid, sp, channelId, data) ==
    WithBase(DynamicChannelPDUInit(cbid, sp, DATA), "DynamicDataPDU",
             [channelId |-> channelId, data |-> data])

DynamicDataFirstCompressedPDU(cbid, sp, channelId, length, data) ==
    WithBase(DynamicChannelPDUInit(cbid, sp, DATA_FIRST_COMPRESSED),
             "DynamicDataFirstCompressedPDU",
             [channelId |-> channelId, length |-> length, data |-> data])

DynamicDataCompressedPDU(cbid, sp, channelId, data) ==
    WithBase(DynamicChannelPDUInit(cbid, sp, DATA_COMPRESSED), "DynamicDataCompressedPDU",
             [channelId |-> channelId, data |-> data])

CloseDynamicChannelPDU(cbid, sp, channelId) ==
    WithBase(DynamicChannelPDUInit(cbid, sp, CLOSE), "CloseDynamicChannelPDU",
             [channelId |-> channelId])

-----------------------------------------------------------------------------
(* pyrdp/parser/rdp/virtual_channel/dynamic_channel.py *)

\* the concatenation of the byte strings rs yields, or the first error among them
CatAll(rs) ==
    Only({ IF \E i \in DOMAIN s : s[i].err # ""
           THEN s[CHOOSE i \in DOMAIN s : s[i].err # "" /\ \A j \in 1..(i - 1) : s[j].err = ""]
           ELSE Ok(Flatten([i \in DOMAIN s |-> s[i].val]))
           : s \in {rs} })

WidthOf(sel) == IF sel = 0 THEN 1 ELSE IF sel = 1 THEN 2 ELSE 4

\* readChannelId without the else branch: selector 3 read as four bytes
readChannelIdNoElse(data, p, cbid) == IntUnpack(data, p, WidthOf(cbid))

readChannelId(data, p, cbid) ==
    IF cbid \in CbIdValues THEN IntUnpack(data, p, WidthOf(cbid))
    ELSE [err |-> "ValueError", val |-> 0, pos |-> p]

\* readLength with the width selector ignored: always one byte
readLengthOneByte(data, p, len) ==
    IF len \in CbIdValues THEN IntUnpack(data, p, 1)
    ELSE [err |-> "ValueError", val |-> 0, pos |-> p]

readLength(data, p, len) ==
    IF len \in CbIdValues THEN IntUnpack(data, p, WidthOf(len))
    ELSE [err |-> "ValueError", val |-> 0, pos |-> p]

writeChannelId(cbid, channelId) ==
    IF cbid \in CbIdValues THEN IntPack(Some(channelId), WidthOf(cbid))
    ELSE Fail("ValueError")

writeLength(len, length) ==
    IF len \in CbIdValues THEN IntPack(Some(length), WidthOf(len))
    ELSE Fail("ValueError")

\* the header with sp shifted by one bit instead of two
PackHeaderShiftOne(cbid, sp, cmd) == BitOr(BitOr(cbid, sp * 2), cmd * 16)

\* header = pdu.cbid | pdu.sp << 2 | pdu.cmd << 4
PackHeader(cbid, sp, cmd) == BitOr(BitOr(cbid, sp * 4), cmd * 16)

\* the isinstance chain of write
WriteBodyUnsupported(p) == Fail("NotImplementedError")

WriteBody(p) ==
    CASE p.type = "CapabilityResponsePDU" ->
            CatAll(<<IntPack(Some(0), 1), IntPack(Some(p.fields.capability), 2)>>)
      [] p.type = "CreateResponsePDU" ->
            CatAll(<<writeChannelId(p.cbid, p.fields.channelId),
                     IntPack(Some(p.fields.creationStatus), 4)>>)
      [] p.type \in {"DynamicDataFirstPDU", "DynamicDataFirstCompressedPDU"} ->
            CatAll(<<writeChannelId(p.cbid, p.fields.channelId),
                     writeLength(p.sp, p.fields.length),
                     Ok(p.fields.data)>>)
      [] p.type \in {"DynamicDataPDU", "DynamicDataCompressedPDU"} ->
            CatAll(<<writeChannelId(p.cbid, p.fields.channelId), Ok(p.fields.data)>>)
      [] p.type = "CloseDynamicChannelPDU" ->
            writeChannelId(p.cbid, p.fields.channelId)
      [] OTHER -> WriteBodyUnsupported(p)

DynamicChannelParser_write(p) ==
    CatAll(<<IntPack(Some(PackHeader(p.cbid, p.sp, p.cmd)), 1), WriteBody(p)>>)

HeaderCbid(header) == BitAnd(header, 3)
HeaderSp(header) == BitAnd(header, 12) \div 4
HeaderCmd(header) == BitAnd(header, 240) \div 16

\* the branches of doParse that return without looping (every cmd but CREATE);
\* p is the cursor after the header byte
ParseDataFirst(data, p, cbid, sp, cmd) ==
    LET id == readChannelId(data, p, cbid)
        ln == readLength(data, id.pos, sp)
    IN  IF id.err # "" THEN Fail(id.err)
        ELSE IF ln.err # "" THEN Fail(ln.err)
        ELSE IF cmd = DATA_FIRST
             THEN DynamicDataFirstPDU(cbid, sp, id.val, ln.val, StreamReadAll(data, ln.pos))
             ELSE DynamicDataFirstCompressedPDU(cbid, sp, id.val, ln.val,
                                                StreamReadAll(data, ln.pos))

ParseData(data, p, cbid, sp, cmd) ==
    LET id == readChannelId(data, p, cbid)
    IN  IF id.err # "" THEN Fail(id.err)
        ELSE IF cmd = DATA
             THEN DynamicDataPDU(cbid, sp, id.val, StreamReadAll(data, id.pos))
             ELSE DynamicDataCompressedPDU(cbid, sp, id.val, StreamReadAll(data, id.pos))

ParseClose(data, p, cbid, sp) ==
    LET id == readChannelId(data, p, cbid)
    IN  IF id.err # "" THEN Fail(id.err) ELSE CloseDynamicChannelPDU(cbid, sp, id.val)

ParseGeneric(data, p, cbid, sp, cmd) == DynamicChannelPDU(cbid, sp, cmd, StreamReadAll(data, p))

ParseNoLoop(data, p, cbid, sp, cmd) ==
    CASE cmd \in {DATA_FIRST, DATA_FIRST_COMPRESSED} -> ParseDataFirst(data, p, cbid, sp, cmd)
      [] cmd \in {DATA, DATA_COMPRESSED} -> ParseData(data, p, cbid, sp, cmd)
      [] cmd = CLOSE -> ParseClose(data, p, cbid, sp)
      [] OTHER -> ParseGeneric(data, p, cbid, sp, cmd)

-----------------------------------------------------------------------------
(* DynamicChannelParser: the inputs drawn, and doParse / write as steps *)

ByteSamples == {0, 65, 200}

\* values that fit one byte, two bytes, and four bytes only
IdSamples == {7, 300, 70000}

LengthSamples == {5, 300, 70000}

\* creation statuses: 0, one whose bytes are "A" NUL NUL NUL, one with no NUL byte
StatusSamples == {0, 65, 1094795585}

NameSamples == {<<>>, <<65>>, <<65, 66>>}

LongTail == <<1, 2, 3, 4, 5, 6, 7, 8, 65, 0, 66>>

TailSamples == BoundedSeq(ByteSamples, MaxTail) \cup {Take(LongTail, n) : n \in 4..Len(LongTail)}

DynBuffers == {<<h>> \o t : h \in 0..255, t \in TailSamples}

Built(S) == {r.val : r \in {x \in S : x.err = ""}}

DynPDUs ==
    LET C == CbIdValues
        S == 0..3
        D == BoundedSeq(ByteSamples, MaxData)
    IN  Built({CreateRequestPDU(c, s, i, n) : c \in C, s \in S, i \in IdSamples, n \in NameSamples}
          \cup {CreateResponsePDU(c, s, i, st) : c \in C, s \in S, i \in IdSamples, st \in StatusSamples}
          \cup {CapabilityResponsePDU(c, s, cap) : c \in C, s \in S, cap \in {1, 3}}
          \cup {DynamicDataFirstPDU(c, s, i, l, d) :
                    c \in C, s \in S, i \in IdSamples, l \in LengthSamples, d \in D}
          \cup {DynamicDataFirstCompressedPDU(c, s, i, l, d) :
                    c \in C, s \in S, i \in IdSamples, l \in LengthSamples, d \in D}
          \cup {DynamicDataPDU(c, s, i, d) : c \in C, s \in S, i \in IdSamples, d \in D}
          \cup {DynamicDataCompressedPDU(c, s, i, d) : c \in C, s \in S, i \in IdSamples, d \in D}
          \cup {CloseDynamicChannelPDU(c, s, i) : c \in C, s \in S, i \in IdSamples}
          \cup {DynamicChannelPDU(c, s, cmd, d) : c \in C, s \in S, cmd \in {5, 8, 9}, d \in D})

Pending == [err |-> "pending", val |-> <<>>]

NoLocals == [cbid |-> 0, sp |-> 0, channelId |-> 0, channelName |-> <<>>]

InitDyn ==
    /\ \/ /\ mode = "dyn.roundtrip"
          /\ pdu \in DynPDUs
          /\ wire = Pending
          /\ pc = "write"
       \/ /\ mode = "dyn.parse"
          /\ pdu = <<>>
          /\ wire \in {Ok(b) : b \in DynBuffers}
          /\ pc = "parse"
    /\ pos = 0
    /\ locals = NoLocals
    /\ ret = Pending

\* write(pdu)
DynWrite ==
    /\ pc = "write"
    /\ wire' = DynamicChannelParser_write(pdu)
    /\ pc' = IF wire'.err = "" THEN "parse" ELSE "done"
    /\ UNCHANGED <<mode, pdu, pos, locals, ret>>

\* doParse from its entry to its return, or to the head of the CREATE loop
\* (lines 25-33: the header, the channel id and channelName = "")
DynBegin ==
    /\ pc = "parse"
    /\ LET data == wire.val
           h == IntUnpack(data, 0, 1)
           cbid == HeaderCbid(h.val)
           sp == HeaderSp(h.val)
           cmd == HeaderCmd(h.val)
       IN  IF h.err # ""
           THEN /\ ret' = Fail(h.err)
                /\ pc' = "done"
                /\ UNCHANGED <<pos, locals>>
           ELSE IF cmd = CREATE
           THEN LET id == readChannelId(data, h.pos, cbid)
                IN  IF id.err # ""
                    THEN /\ ret' = Fail(id.err)
                         /\ pc' = "done"
                         /\ UNCHANGED <<pos, locals>>
                    ELSE /\ locals' = [cbid |-> cbid, sp |-> sp, channelId |-> id.val,
                                       channelName |-> <<>>]
                         /\ pos' = id.pos
                         /\ pc' = "name"
                         /\ UNCHANGED ret
           ELSE /\ ret' = ParseNoLoop(data, h.pos, cbid, sp, cmd)
                /\ pc' = "done"
                /\ UNCHANGED <<pos, locals>>
    /\ UNCHANGED <<mode, pdu, wire>>

\* char = stream.read(1).decode(): the empty string at the end of the stream,
\* UnicodeDecodeError for a byte that is no UTF-8 text on its own
ReadChar(data, p) ==
    LET r == StreamRead(data, p, 1)
    IN  IF r.val = <<>> THEN [err |-> "", val |-> <<>>, pos |-> r.pos]
        ELSE IF r.val[1] >= 128 THEN [err |-> "UnicodeDecodeError", val |-> <<>>, pos |-> r.pos]
        ELSE [err |-> "", val |-> r.val, pos |-> r.pos]

\* one read of a character and the loop test that follows it (lines 34-38)
DynReadChar ==
    /\ pc = "name"
    /\ LET c == ReadChar(wire.val, pos)
       IN  IF c.err # ""
           THEN /\ ret' = Fail(c.err)
                /\ pc' = "done"
                /\ UNCHANGED <<pos, locals>>
           ELSE IF c.val = <<0>>
           THEN /\ ret' = CreateRequestPDU(locals.cbid, locals.sp, locals.channelId,
                                           locals.channelName)
                /\ pc' = "done"
                /\ pos' = c.pos
                /\ UNCHANGED locals
           ELSE /\ locals' = [locals EXCEPT !.channelName = @ \o c.val]
                /\ pos' = c.pos
                /\ UNCHANGED <<pc, ret>>
    /\ UNCHANGED <<mode, pdu, wire>>

NextDyn == DynWrite \/ DynBegin \/ DynReadChar

SpecDyn == InitDyn /\ [][NextDyn]_vars

\* The runs that take the CREATE branch of doParse: buffers whose header says
\* CREATE, and the bytes write gives for a CreateResponse.
InitDynCreate ==
    /\ InitDyn
    /\ mode = "dyn.parse" => HeaderCmd(wire.val[1]) = CREATE
    /\ mode = "dyn.roundtrip" => pdu.type = "CreateResponsePDU"

\* doParse is a synchronous call: once entered it keeps running
FairSpecDynCreate == InitDynCreate /\ [][NextDyn]_vars /\ WF_vars(NextDyn)

\* The header byte alone: every triple of a two-bit cbid, a two-bit sp and a
\* four-bit cmd, packed as write packs it and extracted as doParse extracts it.
HeaderTriples == [cbid : 0..3, sp : 0..3, cmd : 0..15]

InitHeader ==
    /\ mode = "dyn.header"
    /\ pdu \in HeaderTriples
    /\ wire = Pending
    /\ pos = 0
    /\ locals = NoLocals
    /\ pc = "pack"
    /\ ret = Pending

\* write, lines 63-67: the header is built and packed as one byte
HeaderPack ==
    /\ pc = "pack"
    /\ wire' = IntPack(Some(PackHeader(pdu.cbid, pdu.sp, pdu.cmd)), 1)
    /\ pc' = IF wire'.err = "" THEN "extract" ELSE "done"
    /\ UNCHANGED <<mode, pdu, pos, locals, ret>>

\* doParse, lines 25-29: the header byte is read and split
HeaderExtract ==
    /\ pc = "extract"
    /\ \E h \in {IntUnpack(wire.val, 0, 1)} :
          /\ ret' = IF h.err # "" THEN Fail(h.err)
                    ELSE Ok([cbid |-> HeaderCbid(h.val), sp |-> HeaderSp(h.val),
                             cmd |-> HeaderCmd(h.val)])
          /\ pos' = h.pos
    /\ pc' = "done"
    /\ UNCHANGED <<mode, pdu, wire, locals>>

NextHeader == HeaderPack \/ HeaderExtract

SpecHeader == InitHeader /\ [][NextHeader]_vars

-----------------------------------------------------------------------------
(* pyrdp.core: decodeUTF16LE, encodeUTF16LE. A text is a sequence of 16-bit
   code units. *)

\* string.encode("utf-16le"); None has no encode method
encodeUTF16LE(opt) ==
    IF opt = None THEN Fail("AttributeError")
    ELSE Ok([i \in 1..(2 * Len(opt[1])) |->
                IF i % 2 = 1 THEN opt[1][(i + 1) \div 2] % 256 ELSE opt[1][i \div 2] \div 256])

\* data.decode("utf-16le", errors="ignore"): one code unit per two bytes, a
\* trailing odd byte dropped, NUL code units kept
decodeUTF16LE(bs) == [i \in 1..(Len(bs) \div 2) |-> bs[2 * i - 1] + 256 * bs[2 * i]]

\* bytes.ljust(n, b"\x00")[: n]
LjustCut(bs, n) == [i \in 1..n |-> IF i <= Len(bs) THEN bs[i] ELSE 0]

-----------------------------------------------------------------------------
(* pyrdp.enum: the members of the enumerations the parsers convert to *)

RDPVersionValues == {524289, 524292, 524293}

ColorDepthValues == {51712, 51713, 51714, 51715, 51716}

ConnectionTypeValues == 1..7

DesktopOrientationValues == {0, 90, 180, 270}

EncryptionMethodValues == {0, 1, 2, 8, 16}

EncryptionLevelValues == 0..4

\* ConnectionDataType
CLIENT_CORE == 49153
CLIENT_SECURITY == 49154
CLIENT_NETWORK == 49155
CLIENT_CLUSTER == 49156
CLIENT_MONITOR == 49157
CLIENT_MSGCHANNEL == 49158
CLIENT_UNUSED1 == 49159
CLIENT_MONITOR_EX == 49160
CLIENT_MULTITRANSPORT == 49162
SERVER_CORE == 3073
SERVER_SECURITY == 3074
SERVER_NETWORK == 3075
SERVER_MSGCHANNEL == 3076
SERVER_MULTITRANSPORT == 3080

\* EnumType(value): ValueError for a value that is no member
EnumOf(values, v) == IF values = {} \/ v \in values THEN "" ELSE "ValueError"

-----------------------------------------------------------------------------
(* ClientConnectionParser: the client core block *)

Field(name, kind, size, enum) == [name |-> name, kind |-> kind, size |-> size, enum |-> enum]

\* lines 118-129, 286-297
ClientCoreMandatory ==
    << Field("version", "int", 4, RDPVersionValues),
       Field("desktopWidth", "int", 2, {}),
       Field("desktopHeight", "int", 2, {}),
       Field("colorDepth", "int", 2, ColorDepthValues),
       Field("sasSequence", "int", 2, {}),
       Field("keyboardLayout", "int", 4, {}),
       Field("clientBuild", "int", 4, {}),
       Field("clientName", "text", 32, {}),
       Field("keyboardType", "int", 4, {}),
       Field("keyboardSubType", "int", 4, {}),
       Field("keyboardFunctionKey", "int", 4, {}),
       Field("imeFileName", "bytes", 64, {}) >>

\* lines 136-153, 300-314; "pad" is the byte read and written after connectionType
ClientCoreOptional ==
    << Field("postBeta2ColorDepth", "int", 2, {}),
       Field("clientProductId", "int", 2, {}),
       Field("serialNumber", "int", 4, {}),
       Field("highColorDepth", "int", 2, {}),
       Field("supportedColorDepths", "int", 2, {}),
       Field("earlyCapabilityFlags", "int", 2, {}),
       Field("clientDigProductId", "text", 64, {}),
       Field("connectionType", "int", 1, ConnectionTypeValues),
       Field("", "pad", 1, {}),
       Field("serverSelectedProtocol", "int", 4, {}),
       Field("desktopPhysicalWidth", "int", 4, {}),
       Field("desktopPhysicalHeight", "int", 4, {}),
       Field("desktopOrientation", "int", 2, DesktopOrientationValues),
       Field("desktopScaleFactor", "int", 4, {}),
       Field("deviceScaleFactor", "int", 4, {}) >>

RECURSIVE SumSizes(_)
SumSizes(layout) == IF layout = <<>> THEN 0 ELSE layout[1].size + SumSizes(Tail(layout))

FieldNames(layout) == {layout[i].name : i \in {j \in 1..Len(layout) : layout[j].kind # "pad"}}

\* the names of the fields of a layout, in wire order
RECURSIVE OrderedNames(_)
OrderedNames(layout) ==
    IF layout = <<>> THEN <<>>
    ELSE (IF layout[1].kind = "pad" THEN <<>> ELSE <<layout[1].name>>)
         \o OrderedNames(Tail(layout))

\* one field read from a StrictStream: [err, val, pos]
ReadField(f, data, p) ==
    IF f.kind = "int"
    THEN LET r == StrictIntUnpack(data, p, f.size)
         IN  IF r.err # "" THEN r
             ELSE [err |-> EnumOf(f.enum, r.val), val |-> r.val, pos |-> r.pos]
    ELSE LET r == StrictRead(data, p, f.size)
         IN  IF r.err # "" THEN r
             ELSE IF f.kind = "text" THEN [r EXCEPT !.val = decodeUTF16LE(r.val)]
             ELSE r

\* the mandatory fields: an exception of any kind leaves the parser
RECURSIVE ReadMandatory(_, _, _, _)
ReadMandatory(layout, data, p, rec) ==
    IF layout = <<>> THEN [err |-> "", val |-> rec, pos |-> p]
    ELSE Only({ IF r.err # "" THEN [err |-> r.err, val |-> rec, pos |-> r.pos]
                ELSE ReadMandatory(Tail(layout), data, r.pos, rec @@ (layout[1].name :> r.val))
                : r \in {ReadField(layout[1], data, p)} })

\* the optional fields with every field read on its own: a field that is not
\* there is left unset and the next one is tried from the same place
RECURSIVE ReadOptionalEach(_, _, _, _)
ReadOptionalEach(layout, data, p, rec) ==
    IF layout = <<>> THEN Ok(rec)
    ELSE Only({ IF r.err = "EOFError" THEN ReadOptionalEach(Tail(layout), data, q, rec)
                ELSE IF r.err # "" THEN Fail(r.err)
                ELSE ReadOptionalEach(Tail(layout), data, r.pos,
                         IF layout[1].kind = "pad" THEN rec
                         ELSE [rec EXCEPT ![layout[1].name] = Some(r.val)])
                : r \in {ReadField(layout[1], data, p)}, q \in {p} })

\* the try block of the optional fields: they are read in order, EOFError ends
\* the block with the fields read so far set, any other exception leaves the parser
RECURSIVE ReadOptional(_, _, _, _)
ReadOptional(layout, data, p, rec) ==
    IF layout = <<>> THEN Ok(rec)
    ELSE Only({ IF r.err = "EOFError" THEN Ok(rec)
                ELSE IF r.err # "" THEN Fail(r.err)
                ELSE ReadOptional(Tail(layout), data, r.pos,
                         IF layout[1].kind = "pad" THEN rec
                         ELSE [rec EXCEPT ![layout[1].name] = Some(r.val)])
                : r \in {ReadField(layout[1], data, p)} })

AllNone(layout) == [n \in FieldNames(layout) |-> None]

\* ClientCoreData.__init__: the mandatory fields as given, every optional field None
ClientCoreData(mandatory) ==
    ("header" :> CLIENT_CORE) @@ mandatory @@ AllNone(ClientCoreOptional)

parseClientCoreData(data) ==
    Only({ IF m.err # "" THEN Fail(m.err)
           ELSE ReadOptional(ClientCoreOptional, data, m.pos, ClientCoreData(m.val))
           : m \in {ReadMandatory(ClientCoreMandatory, data, 0, [x \in {} |-> 0])} })

\* the bytes one field is written as: [err, val]
WriteField(f, rec) ==
    CASE f.kind = "pad" -> Ok(Zeros(f.size))
      [] f.kind = "int" -> IntPack(rec[f.name], f.size)
      [] f.kind = "text" ->
            LET e == encodeUTF16LE(rec[f.name])
            IN  IF e.err # "" THEN e ELSE Ok(LjustCut(e.val, f.size))
      [] OTHER -> Ok(rec[f.name][1])

\* the optional fields with every field written on its own: a field that is
\* not set is written as zero bytes and the next one is written after it
WriteOptionalZeroFill(layout, rec) ==
    CatAll([i \in 1..Len(layout) |->
               Only({ IF w.err = "struct.error" THEN Ok(Zeros(layout[i].size)) ELSE w
                      : w \in {WriteField(layout[i], rec)} })])

\* the try block of writeClientCoreData: struct.error ends the block with the
\* bytes written so far, any other exception leaves the writer
RECURSIVE WriteOptional(_, _)
WriteOptional(layout, rec) ==
    IF layout = <<>> THEN Ok(<<>>)
    ELSE Only({ IF w.err = "struct.error" THEN Ok(<<>>)
                ELSE IF w.err # "" THEN w
                ELSE Only({ IF rest.err # "" THEN rest ELSE Ok(w.val \o rest.val)
                            : rest \in {WriteOptional(Tail(layout), rec)} })
                : w \in {WriteField(layout[1], rec)} })

WriteMandatory(layout, rec) ==
    CatAll([i \in 1..Len(layout) |-> WriteField(layout[i], [n \in {layout[i].name} |-> Some(rec[n])])])

writeClientCoreData(core) ==
    CatAll(<<WriteMandatory(ClientCoreMandatory, core), WriteOptional(ClientCoreOptional, core)>>)

-----------------------------------------------------------------------------
(* ClientConnectionParser: the other blocks. A channel name is a text: a
   sequence of code points below 2048, which UTF-8 encodes in one or two bytes. *)

\* str.encode(): UTF-8
RECURSIVE Utf8Encode(_)
Utf8Encode(text) ==
    IF text = <<>> THEN <<>>
    ELSE (IF text[1] < 128 THEN <<text[1]>>
          ELSE <<192 + (text[1] \div 64), 128 + (text[1] % 64)>>) \o Utf8Encode(Tail(text))

\* bytes.decode(): UTF-8, UnicodeDecodeError for bytes that are no UTF-8 text
RECURSIVE Utf8Decode(_)
Utf8Decode(bs) ==
    IF bs = <<>> THEN Ok(<<>>)
    ELSE IF bs[1] < 128
         THEN Only({ IF rest.err # "" THEN rest ELSE Ok(<<bs[1]>> \o rest.val)
                     : rest \in {Utf8Decode(Tail(bs))} })
    ELSE IF bs[1] \in 194..223 /\ Len(bs) >= 2 /\ bs[2] \in 128..191
         THEN Only({ IF rest.err # "" THEN rest
                     ELSE Ok(<<(bs[1] - 192) * 64 + (bs[2] - 128)>> \o rest.val)
                     : rest \in {Utf8Decode(Tail(Tail(bs)))} })
    ELSE Fail("UnicodeDecodeError")

\* bytes.strip(b"\x00")
RECURSIVE StripTrailingZeros(_)
StripTrailingZeros(bs) ==
    IF bs = <<>> THEN <<>>
    ELSE IF bs[Len(bs)] = 0 THEN StripTrailingZeros(SubSeq(bs, 1, Len(bs) - 1))
    ELSE bs

StripZeros(bs) == StripTrailingZeros(StripLeadingZeros(bs))

\* bytes.upper(): the ASCII letters a-z become A-Z
Upper(bs) == [i \in 1..Len(bs) |-> IF bs[i] \in 97..122 THEN bs[i] - 32 ELSE bs[i]]

\* needle in haystack
Contains(haystack, needle) ==
    \E h \in {haystack} : \E i \in 0..(Len(h) - Len(needle)) :
        SubSeq(h, i + 1, i + Len(needle)) = needle

\* b"MS_T120"
MS_T120 == <<77, 83, 95, 84, 49, 50, 48>>

\* the signature looked for as it is, without data.upper()
detectBlueKeepScanCaseSensitive(data) == Contains(data, MS_T120)

detectBlueKeepScan(data) == Contains(Upper(data), MS_T120)

ClientSecurityData(encryptionMethods, extEncryptionMethods) ==
    [header |-> CLIENT_SECURITY, encryptionMethods |-> encryptionMethods,
     extEncryptionMethods |-> extEncryptionMethods]

ClientChannelDefinition(name, options) == [name |-> name, options |-> options]

ClientNetworkData(channelDefinitions) ==
    [header |-> CLIENT_NETWORK, channelDefinitions |-> channelDefinitions]

ClientClusterData(flags, redirectedSessionID) ==
    [header |-> CLIENT_CLUSTER, flags |-> flags, redirectedSessionID |-> redirectedSessionID]

ClientMonitorAttribute(physicalWidth, physicalHeight, orientation, desktopScaleFactor, deviceScaleFactor) ==
    [physicalWidth |-> physicalWidth, physicalHeight |-> physicalHeight,
     orientation |-> orientation, desktopScaleFactor |-> desktopScaleFactor,
     deviceScaleFactor |-> deviceScaleFactor]

ClientMonitorData(flags, monitorAttributeSize, monitorCount, monitorAttributes) ==
    [header |-> CLIENT_MONITOR, flags |-> flags, monitorAttributeSize |-> monitorAttributeSize,
     monitorCount |-> monitorCount, monitorAttributes |-> monitorAttributes]

ClientMessageChannelData(flags) == [header |-> CLIENT_MSGCHANNEL, flags |-> flags]

ClientMonitorExData(flags, monitorAttributeSize, monitorCount, monitorAttributes) ==
    [header |-> CLIENT_MONITOR_EX, flags |-> flags, monitorAttributeSize |-> monitorAttributeSize,
     monitorCount |-> monitorCount, monitorAttributes |-> monitorAttributes]

ClientMultitransportData(flags) == [header |-> CLIENT_MULTITRANSPORT, flags |-> flags]

ClientUnused1Data(pad2Octets) == [header |-> CLIENT_UNUSED1, pad2Octets |-> pad2Octets]

\* n integers of the given sizes read one after the other from a BytesIO:
\* [err, val (the sequence of values), pos]
RECURSIVE UnpackAll(_, _, _)
UnpackAll(data, p, sizes) ==
    IF sizes = <<>> THEN [err |-> "", val |-> <<>>, pos |-> p]
    ELSE Only({ IF r.err # "" THEN [err |-> r.err, val |-> <<>>, pos |-> r.pos]
                ELSE Only({ [rest EXCEPT !.val = <<r.val>> \o @]
                            : rest \in {UnpackAll(data, r.pos, Tail(sizes))} })
                : r \in {IntUnpack(data, p, sizes[1])} })

parseClientSecurityData(data) ==
    LET r == UnpackAll(data, 0, <<4, 4>>)
    IN  IF r.err # "" THEN Fail(r.err) ELSE Ok(ClientSecurityData(r.val[1], r.val[2]))

\* the loop of parseClientNetworkData: count entries of 8 name bytes and 4 option bytes
RECURSIVE ParseChannelDefinitions(_, _, _)
ParseChannelDefinitions(data, p, count) ==
    IF count = 0 THEN Ok(<<>>)
    ELSE Only({ IF name.err # "" THEN name
                ELSE IF options.err # "" THEN Fail(options.err)
                ELSE Only({ IF rest.err # "" THEN rest
                            ELSE Ok(<<ClientChannelDefinition(name.val, options.val)>>
                                    \o rest.val)
                            : rest \in {ParseChannelDefinitions(data, options.pos, count - 1)} })
                : name \in {Utf8Decode(StripZeros(StreamRead(data, p, 8).val))},
                  options \in {IntUnpack(data, StreamRead(data, p, 8).pos, 4)} })

\* len(data) != channelCount * 12, for a count of any size
ArraySizeMismatch(len, channelCount) == ~(len % 12 = 0 /\ len \div 12 = channelCount)

\* the size check first, the signature check after it
parseClientNetworkDataSizeFirst(data) ==
    LET channelCount == IntUnpack(data, 0, 4)
    IN  IF channelCount.err # "" THEN Fail(channelCount.err)
        ELSE IF ArraySizeMismatch(Len(Drop(data, 4)), channelCount.val) THEN Fail("ParsingError")
        ELSE IF detectBlueKeepScan(data) THEN Fail("ExploitError")
        ELSE LET defs == ParseChannelDefinitions(data, channelCount.pos, channelCount.val)
             IN  IF defs.err # "" THEN defs ELSE Ok(ClientNetworkData(defs.val))

\* the array accepted when it is at least as long as the count says
parseClientNetworkDataAtLeast(data) ==
    LET channelCount == IntUnpack(data, 0, 4)
    IN  IF detectBlueKeepScan(data) THEN Fail("ExploitError")
        ELSE IF channelCount.err # "" THEN Fail(channelCount.err)
        ELSE IF channelCount.val < 0 \/ Len(Drop(data, 4)) \div 12 < channelCount.val
             THEN Fail("ParsingError")
        ELSE LET defs == ParseChannelDefinitions(data, channelCount.pos, channelCount.val)
             IN  IF defs.err # "" THEN defs ELSE Ok(ClientNetworkData(defs.val))

parseClientNetworkData(data) ==
    LET channelCount == IntUnpack(data, 0, 4)
    IN  IF detectBlueKeepScan(data) THEN Fail("ExploitError")
        ELSE IF channelCount.err # "" THEN Fail(channelCount.err)
        ELSE IF ArraySizeMismatch(Len(Drop(data, 4)), channelCount.val) THEN Fail("ParsingError")
        ELSE LET defs == ParseChannelDefinitions(data, channelCount.pos, channelCount.val)
             IN  IF defs.err # "" THEN defs ELSE Ok(ClientNetworkData(defs.val))

parseClientClusterData(data) ==
    LET r == UnpackAll(data, 0, <<4, 4>>)
    IN  IF r.err # "" THEN Fail(r.err) ELSE Ok(ClientClusterData(r.val[1], r.val[2]))

\* [err, val, pos]
parseClientMonitorAttribute(data, p) ==
    LET r == UnpackAll(data, p, <<4, 4, 4, 4, 4>>)
    IN  IF r.err # "" THEN r
        ELSE [r EXCEPT !.val = ClientMonitorAttribute(r.val[1], r.val[2], r.val[3], r.val[4],
                                                      r.val[5])]

\* for _ in range(monitorCount): a count of 2^31 or more (negative here) runs
\* until the short read
RECURSIVE ParseMonitorAttributes(_, _, _)
ParseMonitorAttributes(data, p, count) ==
    IF count = 0 THEN Ok(<<>>)
    ELSE Only({ IF a.err # "" THEN Fail(a.err)
                ELSE Only({ IF rest.err # "" THEN rest ELSE Ok(<<a.val>> \o rest.val)
                            : rest \in {ParseMonitorAttributes(data, a.pos, count - 1)} })
                : a \in {parseClientMonitorAttribute(data, p)} })

parseClientMonitorData(data) ==
    LET r == UnpackAll(data, 0, <<4, 4, 4>>)
        attrs == ParseMonitorAttributes(data, r.pos, r.val[3])
    IN  IF r.err # "" THEN Fail(r.err)
        ELSE IF attrs.err # "" THEN attrs
        ELSE Ok(ClientMonitorData(r.val[1], r.val[2], r.val[3], attrs.val))

parseClientMessageChannelData(data) ==
    LET r == IntUnpack(data, 0, 4)
    IN  IF r.err # "" THEN Fail(r.err) ELSE Ok(ClientMessageChannelData(r.val))

parseClientMonitorExData(data) ==
    LET r == UnpackAll(data, 0, <<4, 4, 4>>)
        attrs == ParseMonitorAttributes(data, r.pos, r.val[3])
    IN  IF r.err # "" THEN Fail(r.err)
        ELSE IF attrs.err # "" THEN attrs
        ELSE Ok(ClientMonitorExData(r.val[1], r.val[2], r.val[3], attrs.val))

parseClientMultitransportData(data) ==
    LET r == IntUnpack(data, 0, 4)
    IN  IF r.err # "" THEN Fail(r.err) ELSE Ok(ClientMultitransportData(r.val))

parseClientUnused1Data(data) ==
    LET r == IntUnpack(data, 0, 2)
    IN  IF r.err # "" THEN Fail(r.err) ELSE Ok(ClientUnused1Data(r.val))

writeClientSecurityData(security) ==
    CatAll(<<IntPack(Some(security.encryptionMethods), 4),
             IntPack(Some(security.extEncryptionMethods), 4)>>)

\* one channel definition: the name check, the 8 name bytes, the options
WriteChannelDefinition(channel) ==
    IF Len(channel.name) > 8 THEN Fail("ParsingError")
    ELSE CatAll(<<Ok(LjustCut(Utf8Encode(channel.name), 8)), IntPack(Some(channel.options), 4)>>)

writeClientNetworkData(network) ==
    CatAll(<<IntPack(Some(Len(network.channelDefinitions)), 4)>>
           \o [i \in 1..Len(network.channelDefinitions) |->
                  WriteChannelDefinition(network.channelDefinitions[i])])

writeClientClusterData(cluster) ==
    CatAll(<<IntPack(Some(cluster.flags), 4), IntPack(Some(cluster.redirectedSessionID), 4)>>)

writeClientMonitorAttribute(a) ==
    CatAll(<<IntPack(Some(a.physicalWidth), 4), IntPack(Some(a.physicalHeight), 4),
             IntPack(Some(a.orientation), 4), IntPack(Some(a.desktopScaleFactor), 4),
             IntPack(Some(a.deviceScaleFactor), 4)>>)

\* writeClientMonitorData and writeClientMonitorExData
writeClientMonitorData(monitor) ==
    CatAll(<<IntPack(Some(monitor.flags), 4), IntPack(Some(monitor.monitorAttributeSize), 4),
             IntPack(Some(monitor.monitorCount), 4)>>
           \o [i \in 1..Len(monitor.monitorAttributes) |->
                  writeClientMonitorAttribute(monitor.monitorAttributes[i])])

writeClientMonitorExData(monitorEx) == writeClientMonitorData(monitorEx)

writeClientMessageChannelData(messageChannel) == IntPack(Some(messageChannel.flags), 4)

writeClientMultitransportData(multitransport) == IntPack(Some(multitransport.flags), 4)

writeClientUnused1Data(unused1) == IntPack(Some(unused1.pad2Octets), 2)

\* self.parsers[header](substream)
ClientParsers(header, data) ==
    CASE header = CLIENT_CORE -> parseClientCoreData(data)
      [] header = CLIENT_SECURITY -> parseClientSecurityData(data)
      [] header = CLIENT_NETWORK -> parseClientNetworkData(data)
      [] header = CLIENT_CLUSTER -> parseClientClusterData(data)
      [] header = CLIENT_MONITOR -> parseClientMonitorData(data)
      [] header = CLIENT_MSGCHANNEL -> parseClientMessageChannelData(data)
      [] header = CLIENT_MONITOR_EX -> parseClientMonitorExData(data)
      [] header = CLIENT_MULTITRANSPORT -> parseClientMultitransportData(data)
      [] header = CLIENT_UNUSED1 -> parseClientUnused1Data(data)
      [] OTHER -> Fail("UnknownPDUTypeError")

\* self.writers[data.header](substream, data)
ClientWriters(data) ==
    CASE data.header = CLIENT_CORE -> writeClientCoreData(data)
      [] data.header = CLIENT_SECURITY -> writeClientSecurityData(data)
      [] data.header = CLIENT_NETWORK -> writeClientNetworkData(data)
      [] data.header = CLIENT_CLUSTER -> writeClientClusterData(data)
      [] data.header = CLIENT_MONITOR -> writeClientMonitorData(data)
      [] data.header = CLIENT_MSGCHANNEL -> writeClientMessageChannelData(data)
      [] data.header = CLIENT_MONITOR_EX -> writeClientMonitorExData(data)
      [] data.header = CLIENT_MULTITRANSPORT -> writeClientMultitransportData(data)
      [] data.header = CLIENT_UNUSED1 -> writeClientUnused1Data(data)
      [] OTHER -> Fail("UnknownPDUTypeError")

\* ClientConnectionParser.parseStructure at cursor p: [err, val, pos]
Client_parseStructure(data, p) ==
    LET header == IntUnpack(data, p, 2)
        total == IntUnpack(data, header.pos, 2)
        length == total.val - 4
        body == StreamRead(data, total.pos, length)
        parsed == Only({ClientParsers(h, bytes) : h \in {header.val}, bytes \in {body.val}})
    IN  IF header.err # "" THEN [err |-> header.err, val |-> <<>>, pos |-> header.pos]
        ELSE IF total.err # "" THEN [err |-> total.err, val |-> <<>>, pos |-> total.pos]
        ELSE IF Len(body.val) # length THEN [err |-> "ParsingError", val |-> <<>>, pos |-> body.pos]
        ELSE [err |-> parsed.err, val |-> parsed.val, pos |-> body.pos]

\* ClientConnectionParser.writeStructure: the bytes it adds to the stream
Client_writeStructure(data) ==
    LET substream == ClientWriters(data)
    IN  IF substream.err # "" THEN substream
        ELSE CatAll(<<IntPack(Some(data.header), 2), IntPack(Some(Len(substream.val) + 4), 2),
                      substream>>)

ClientSlots ==
    <<"coreData", "securityData", "networkData", "clusterData", "monitorData",
      "messageChannelData", "monitorExData", "multitransportData", "unused1Data">>

\* which attribute of the ClientDataPDU a structure is stored in (lines 75-92)
ClientSlotOf(header) ==
    CASE header = CLIENT_CORE -> "coreData"
      [] header = CLIENT_SECURITY -> "securityData"
      [] header = CLIENT_NETWORK -> "networkData"
      [] header = CLIENT_CLUSTER -> "clusterData"
      [] header = CLIENT_MONITOR -> "monitorData"
      [] header = CLIENT_MSGCHANNEL -> "messageChannelData"
      [] header = CLIENT_MONITOR_EX -> "monitorExData"
      [] header = CLIENT_MULTITRANSPORT -> "multitransportData"
      [] header = CLIENT_UNUSED1 -> "unused1Data"

\* ClientDataPDU with every block None
EmptyClientDataPDU == [n \in {ClientSlots[i] : i \in 1..Len(ClientSlots)} |-> None]

\* ClientConnectionParser.write: the blocks that are set, in the order of ClientSlots
Client_write(p) ==
    CatAll([i \in 1..Len(ClientSlots) |->
               IF p[ClientSlots[i]] = None THEN Ok(<<>>)
               ELSE Client_writeStructure(p[ClientSlots[i]][1])])

\* the loop test of ClientConnectionParser.doParse (line 72)
ClientLoopTest(data, p, slots) ==
    /\ p # Len(data)
    /\ \/ slots.coreData = None
       \/ slots.securityData = None
       \/ slots.networkData = None
       \/ slots.clusterData = None

-----------------------------------------------------------------------------
(* ServerConnectionParser: the core block, the security block, the certificate *)

\* line 442, 569
ServerCoreMandatory == << Field("version", "int", 4, {}) >>

\* lines 445-446
ServerCoreOptional ==
    << Field("clientRequestedProtocols", "int", 4, {}),
       Field("earlyCapabilityFlags", "int", 4, {}) >>

ServerCoreData(version, clientRequestedProtocols, earlyCapabilityFlags) ==
    [header |-> SERVER_CORE, version |-> version,
     clientRequestedProtocols |-> clientRequestedProtocols,
     earlyCapabilityFlags |-> earlyCapabilityFlags]

parseServerCoreData(data) ==
    LET m == ReadMandatory(ServerCoreMandatory, data, 0, [x \in {} |-> 0])
        o == ReadOptional(ServerCoreOptional, data, m.pos, AllNone(ServerCoreOptional))
    IN  IF m.err # "" THEN Fail(m.err)
        ELSE IF o.err # "" THEN o
        ELSE Ok(ServerCoreData(m.val.version, o.val.clientRequestedProtocols,
                               o.val.earlyCapabilityFlags))

\* a missing clientRequestedProtocols is written as 0
writeServerCoreData(core) ==
    CatAll(<< IntPack(Some(core.version), 4),
              IntPack(IF core.clientRequestedProtocols = None THEN Some(0)
                      ELSE core.clientRequestedProtocols, 4),
              IF core.earlyCapabilityFlags # None THEN IntPack(core.earlyCapabilityFlags, 4)
              ELSE Ok(<<>>) >>)

\* An integer of any size is carried as its big-endian bytes without leading
\* zero bytes (0 is the empty string).
\* Crypto.Util.number.bytes_to_long
bytes_to_long(bs) == StripLeadingZeros(bs)

\* Crypto.Util.number.long_to_bytes: at least one byte
long_to_bytes(n) == IF n = <<>> THEN <<0>> ELSE n

\* n mod m for an integer n carried as bytes and a small m > 0
RECURSIVE BigMod(_, _)
BigMod(n, m) ==
    IF n = <<>> THEN 0
    ELSE (BigMod(SubSeq(n, 1, Len(n) - 1), m) * 256 + n[Len(n)]) % m

RECURSIVE Gcd(_, _)
Gcd(a, b) == IF b = 0 THEN a ELSE Gcd(b, a % b)

\* e >= n, for an exponent below 2^24
ExponentNotBelow(n, e) == Len(n) <= 3 /\ e >= FromLE(Reverse(n))

\* Crypto.PublicKey.RSA.construct((n, e)) with its consistency check: the
\* exponent is in 2..n-1 and coprime to the modulus, the modulus is odd
RSAConstruct(n, e) ==
    IF e <= 1 \/ ExponentNotBelow(n, e) THEN Fail("ValueError")
    ELSE IF Gcd(e, BigMod(n, e)) # 1 THEN Fail("ValueError")
    ELSE IF n[Len(n)] % 2 = 0 THEN Fail("ValueError")
    ELSE Ok([n |-> n, e |-> e])

parsePublicKey(data) ==
    LET magic == StreamRead(data, 0, 4)
        keyLength == IntUnpack(data, magic.pos, 4)
        bitLength == IntUnpack(data, keyLength.pos, 4)
        dataLength == IntUnpack(data, bitLength.pos, 4)
        publicExponent == IntUnpack(data, dataLength.pos, 4)
        modulus == StreamRead(data, publicExponent.pos, keyLength.val - 8)
    IN  IF keyLength.err # "" THEN Fail(keyLength.err)
        ELSE IF bitLength.err # "" THEN Fail(bitLength.err)
        ELSE IF dataLength.err # "" THEN Fail(dataLength.err)
        ELSE IF publicExponent.err # "" THEN Fail(publicExponent.err)
        ELSE RSAConstruct(bytes_to_long(Reverse(modulus.val)), publicExponent.val)

\* modulus bytes written as they are, without the reversal
writePublicKeyNoReverse(publicKey) ==
    LET modulusBytes == long_to_bytes(publicKey.n)
    IN  CatAll(<< Ok(<<82, 83, 65, 49>>),
                  IntPack(Some(Len(modulusBytes) + 8), 4),
                  IntPack(Some(2048), 4),
                  IntPack(Some(255), 4),
                  IntPack(Some(publicKey.e), 4),
                  Ok(modulusBytes),
                  Ok(Zeros(8)) >>)

writePublicKey(publicKey) ==
    LET modulusBytes == Reverse(long_to_bytes(publicKey.n))
    IN  CatAll(<< Ok(<<82, 83, 65, 49>>),
                  IntPack(Some(Len(modulusBytes) + 8), 4),
                  IntPack(Some(2048), 4),
                  IntPack(Some(255), 4),
                  IntPack(Some(publicKey.e), 4),
                  Ok(modulusBytes),
                  Ok(Zeros(8)) >>)

PROPRIETARY == 1

ProprietaryCertificate(signatureAlgorithmID, keyAlgorithmID, publicKeyType, publicKey, signatureType, signature, padding) ==
    [type |-> PROPRIETARY, signatureAlgorithmID |-> signatureAlgorithmID,
     keyAlgorithmID |-> keyAlgorithmID, publicKeyType |-> publicKeyType,
     publicKey |-> publicKey, signatureType |-> signatureType,
     signature |-> signature, padding |-> padding]

\* p is the cursor after the certificate version
parseProprietaryCertificate(data, p) ==
    LET signatureAlgorithmID == IntUnpack(data, p, 4)
        keyAlgorithmID == IntUnpack(data, signatureAlgorithmID.pos, 4)
        publicKeyType == IntUnpack(data, keyAlgorithmID.pos, 2)
        keyLength == IntUnpack(data, publicKeyType.pos, 2)
        keyBytes == StreamRead(data, keyLength.pos, keyLength.val)
        signatureType == IntUnpack(data, keyBytes.pos, 2)
        signatureLength == IntUnpack(data, signatureType.pos, 2)
        signature == StreamRead(data, signatureLength.pos, signatureLength.val - 8)
        padding == StreamReadAll(data, signature.pos)
        publicKey == Only({parsePublicKey(bytes) : bytes \in {keyBytes.val}})
    IN  IF signatureAlgorithmID.err # "" THEN Fail(signatureAlgorithmID.err)
        ELSE IF keyAlgorithmID.err # "" THEN Fail(keyAlgorithmID.err)
        ELSE IF publicKeyType.err # "" THEN Fail(publicKeyType.err)
        ELSE IF keyLength.err # "" THEN Fail(keyLength.err)
        ELSE IF signatureType.err # "" THEN Fail(signatureType.err)
        ELSE IF signatureLength.err # "" THEN Fail(signatureLength.err)
        ELSE IF publicKey.err # "" THEN publicKey
        ELSE Ok(ProprietaryCertificate(signatureAlgorithmID.val, keyAlgorithmID.val,
                                       publicKeyType.val, publicKey.val, signatureType.val,
                                       signature.val, padding))

parseServerCertificate(data) ==
    LET version == IntUnpack(data, 0, 4)
    IN  IF version.err # "" THEN Fail(version.err)
        ELSE IF version.val = PROPRIETARY THEN parseProprietaryCertificate(data, version.pos)
        ELSE Fail("NotImplementedError")

writeProprietaryCertificate(cert) ==
    LET keyBytes == writePublicKey(cert.publicKey)
    IN  IF keyBytes.err # "" THEN keyBytes
        ELSE CatAll(<< IntPack(Some(cert.signatureAlgorithmID), 4),
                       IntPack(Some(cert.keyAlgorithmID), 4),
                       IntPack(Some(cert.publicKeyType), 2),
                       IntPack(Some(Len(keyBytes.val)), 2),
                       keyBytes,
                       IntPack(Some(cert.signatureType), 2),
                       IntPack(Some(Len(cert.signature) + 8), 2),
                       Ok(cert.signature),
                       Ok(Zeros(8)) >>)

\* certificate is None or <<the certificate>>; None has no attribute type
writeServerCertificate(certificate) ==
    IF certificate = None THEN Fail("AttributeError")
    ELSE IF certificate[1].type = PROPRIETARY
         THEN CatAll(<<IntPack(Some(PROPRIETARY), 4), writeProprietaryCertificate(certificate[1])>>)
         ELSE Fail("NotImplementedError")

\* lines 461-462, 595-596
ServerSecurityMandatory ==
    << Field("encryptionMethod", "int", 4, EncryptionMethodValues),
       Field("encryptionLevel", "int", 4, EncryptionLevelValues) >>

ServerSecurityData(encryptionMethod, encryptionLevel, serverRandom, serverCertificate) ==
    [header |-> SERVER_SECURITY, encryptionMethod |-> encryptionMethod,
     encryptionLevel |-> encryptionLevel, serverRandom |-> serverRandom,
     serverCertificate |-> serverCertificate]

\* the try block of parseServerSecurityData: [err, serverRandom, serverCertificate]
SecurityOptional(data, p) ==
    LET serverRandomLength == StrictIntUnpack(data, p, 4)
        serverCertificateLength == StrictIntUnpack(data, serverRandomLength.pos, 4)
        serverRandom == StrictRead(data, serverCertificateLength.pos, serverRandomLength.val)
        certBytes == StrictRead(data, serverRandom.pos, serverCertificateLength.val)
        result(e, r, c) == [err |-> e, serverRandom |-> r, serverCertificate |-> c]
    IN  IF serverRandomLength.err # "" \/ serverCertificateLength.err # ""
           \/ serverRandom.err # ""
        THEN result("", None, None)
        ELSE IF certBytes.err # "" THEN result("", Some(serverRandom.val), None)
        ELSE Only({ IF cert.err # "" THEN result(cert.err, None, None)
                    ELSE result("", Some(serverRandom.val), Some(cert.val))
                    : cert \in {Only({parseServerCertificate(bytes) : bytes \in {certBytes.val}})} })

\* the try block with the certificate read before the server random is kept
SecurityOptionalCertFirst(data, p) ==
    LET serverRandomLength == StrictIntUnpack(data, p, 4)
        serverCertificateLength == StrictIntUnpack(data, serverRandomLength.pos, 4)
        certBytes == StrictRead(data, serverCertificateLength.pos, serverCertificateLength.val)
        cert == parseServerCertificate(certBytes.val)
        serverRandom == StrictRead(data, certBytes.pos, serverRandomLength.val)
        result(e, r, c) == [err |-> e, serverRandom |-> r, serverCertificate |-> c]
    IN  IF serverRandomLength.err # "" \/ serverCertificateLength.err # ""
           \/ certBytes.err # ""
        THEN result("", None, None)
        ELSE IF cert.err # "" THEN result(cert.err, None, None)
        ELSE IF serverRandom.err # "" THEN result("", None, Some(cert.val))
        ELSE result("", Some(serverRandom.val), Some(cert.val))

parseServerSecurityData(data) ==
    Only({ IF m.err # "" THEN Fail(m.err)
           ELSE Only({ IF o.err # "" THEN Fail(o.err)
                       ELSE Ok(ServerSecurityData(m.val.encryptionMethod, m.val.encryptionLevel,
                                                  o.serverRandom, o.serverCertificate))
                       : o \in {SecurityOptional(data, m.pos)} })
           : m \in {ReadMandatory(ServerSecurityMandatory, data, 0, [x \in {} |-> 0])} })

writeServerSecurityData(sec) ==
    LET serverCertificate == writeServerCertificate(sec.serverCertificate)
    IN  CatAll(<< IntPack(Some(sec.encryptionMethod), 4),
                  IntPack(Some(sec.encryptionLevel), 4) >>
               \o IF sec.serverRandom = None THEN <<>>
                  ELSE IF serverCertificate.err # "" THEN <<serverCertificate>>
                  ELSE << IntPack(Some(Len(sec.serverRandom[1])), 4),
                          IntPack(Some(Len(serverCertificate.val)), 4),
                          Ok(sec.serverRandom[1]),
                          serverCertificate >>)

-----------------------------------------------------------------------------
(* ServerConnectionParser: the network, message channel and multitransport
   blocks, parseStructure, writeStructure, write *)

ServerNetworkData(mcsChannelID, channels) ==
    [header |-> SERVER_NETWORK, mcsChannelID |-> mcsChannelID, channels |-> channels]

ServerMessageChannelData(channelId) == [header |-> SERVER_MSGCHANNEL, channelId |-> channelId]

ServerMultitransportData(flags) == [header |-> SERVER_MULTITRANSPORT, flags |-> flags]

\* [Uint16LE.unpack(stream) for _ in range(channelCount)]
RECURSIVE UnpackChannels(_, _, _)
UnpackChannels(data, p, count) ==
    IF count = 0 THEN Ok(<<>>)
    ELSE Only({ IF c.err # "" THEN Fail(c.err)
                ELSE Only({ IF rest.err # "" THEN rest ELSE Ok(<<c.val>> \o rest.val)
                            : rest \in {UnpackChannels(data, c.pos, count - 1)} })
                : c \in {IntUnpack(data, p, 2)} })

parseServerNetworkData(data) ==
    Only({ IF mcsChannelID.err # "" THEN Fail(mcsChannelID.err)
           ELSE IF channelCount.err # "" THEN Fail(channelCount.err)
           ELSE Only({ IF channels.err # "" THEN channels
                       ELSE Ok(ServerNetworkData(mcsChannelID.val, channels.val))
                       : channels \in {UnpackChannels(data, channelCount.pos, channelCount.val)} })
           : mcsChannelID \in {IntUnpack(data, 0, 2)}, channelCount \in {IntUnpack(data, 2, 2)} })

parseServerMessageChannelData(data) ==
    Only({ IF channelId.err # "" THEN Fail(channelId.err)
           ELSE Ok(ServerMessageChannelData(channelId.val))
           : channelId \in {StrictIntUnpack(data, 0, 2)} })

parseServerMultitransportData(data) ==
    Only({ IF flags.err # "" THEN Fail(flags.err) ELSE Ok(ServerMultitransportData(flags.val))
           : flags \in {StrictIntUnpack(data, 0, 4)} })

\* writeServerNetworkData without the word written after an odd number of channels
writeServerNetworkDataNoPad(network) ==
    CatAll(<<IntPack(Some(network.mcsChannelID), 2), IntPack(Some(Len(network.channels)), 2)>>
           \o [i \in 1..Len(network.channels) |-> IntPack(Some(network.channels[i]), 2)])

writeServerNetworkData(network) ==
    CatAll(<<IntPack(Some(network.mcsChannelID), 2), IntPack(Some(Len(network.channels)), 2)>>
           \o [i \in 1..Len(network.channels) |-> IntPack(Some(network.channels[i]), 2)]
           \o IF Len(network.channels) % 2 # 0 THEN <<IntPack(Some(0), 2)>> ELSE <<>>)

writeServerMessageChannelData(data) == IntPack(Some(data.channelId), 2)

writeServerMultitransportData(data) == IntPack(Some(data.flags), 4)

\* self.parsers[header](substream)
ServerParsers(header, data) ==
    CASE header = SERVER_CORE -> parseServerCoreData(data)
      [] header = SERVER_NETWORK -> parseServerNetworkData(data)
      [] header = SERVER_SECURITY -> parseServerSecurityData(data)
      [] header = SERVER_MSGCHANNEL -> parseServerMessageChannelData(data)
      [] header = SERVER_MULTITRANSPORT -> parseServerMultitransportData(data)
      [] OTHER -> Fail("UnknownPDUTypeError")

\* self.writers[data.header](substream, data)
ServerWriters(data) ==
    CASE data.header = SERVER_CORE -> writeServerCoreData(data)
      [] data.header = SERVER_NETWORK -> writeServerNetworkData(data)
      [] data.header = SERVER_SECURITY -> writeServerSecurityData(data)
      [] data.header = SERVER_MSGCHANNEL -> writeServerMessageChannelData(data)
      [] data.header = SERVER_MULTITRANSPORT -> writeServerMultitransportData(data)
      [] OTHER -> Fail("UnknownPDUTypeError")

\* ClientConnectionParser.parseStructure up to the length test (lines 100-105):
\* [err, header, data, pos]
Client_readStructure(stream, p) ==
    Only({ IF header.err # "" THEN [err |-> header.err, header |-> 0, data |-> <<>>, pos |-> header.pos]
           ELSE IF total.err # "" THEN [err |-> total.err, header |-> 0, data |-> <<>>, pos |-> total.pos]
           ELSE Only({ IF Len(body.val) # total.val - 4
                       THEN [err |-> "ParsingError", header |-> header.val, data |-> body.val, pos |-> body.pos]
                       ELSE [err |-> "", header |-> header.val, data |-> body.val, pos |-> body.pos]
                       : body \in {StreamRead(stream, total.pos, total.val - 4)} })
           : header \in {IntUnpack(stream, p, 2)}, total \in {IntUnpack(stream, p + 2, 2)} })

\* ServerConnectionParser.parseStructure up to the length test (lines 423-428)
Server_readStructure(stream, p) ==
    Only({ IF header.err # "" THEN [err |-> header.err, header |-> 0, data |-> <<>>, pos |-> header.pos]
           ELSE IF total.err # "" THEN [err |-> total.err, header |-> 0, data |-> <<>>, pos |-> total.pos]
           ELSE Only({ IF Len(body.val) < total.val - 4
                       THEN [err |-> "ParsingError", header |-> header.val, data |-> body.val, pos |-> body.pos]
                       ELSE [err |-> "", header |-> header.val, data |-> body.val, pos |-> body.pos]
                       : body \in {StreamRead(stream, total.pos, total.val - 4)} })
           : header \in {IntUnpack(stream, p, 2)}, total \in {IntUnpack(stream, p + 2, 2)} })

\* ServerConnectionParser.parseStructure at cursor p: [err, val, pos]
Server_parseStructure(stream, p) ==
    Only({ IF r.err # "" THEN [err |-> r.err, val |-> <<>>, pos |-> r.pos]
           ELSE Only({ [err |-> parsed.err, val |-> parsed.val, pos |-> r.pos]
                       : parsed \in {ServerParsers(r.header, r.data)} })
           : r \in {Server_readStructure(stream, p)} })

\* ServerConnectionParser.writeStructure: the bytes it adds to the stream
Server_writeStructure(data) ==
    Only({ IF substream.err # "" THEN substream
           ELSE CatAll(<<IntPack(Some(data.header), 2), IntPack(Some(Len(substream.val) + 4), 2),
                         substream>>)
           : substream \in {ServerWriters(data)} })

ServerSlots ==
    <<"coreData", "securityData", "networkData", "messageChannelData", "multitransportData">>

\* which attribute of the ServerDataPDU a structure is stored in (lines 404-415)
ServerSlotOf(header) ==
    CASE header = SERVER_CORE -> "coreData"
      [] header = SERVER_SECURITY -> "securityData"
      [] header = SERVER_NETWORK -> "networkData"
      [] header = SERVER_MSGCHANNEL -> "messageChannelData"
      [] header = SERVER_MULTITRANSPORT -> "multitransportData"

\* ServerDataPDU with every block None
EmptyServerDataPDU == [n \in {ServerSlots[i] : i \in 1..Len(ServerSlots)} |-> None]

\* ServerConnectionParser.write: the blocks that are set, in the order of ServerSlots
Server_write(p) ==
    CatAll([i \in 1..Len(ServerSlots) |->
               IF p[ServerSlots[i]] = None THEN Ok(<<>>)
               ELSE Server_writeStructure(p[ServerSlots[i]][1])])

\* the loop test without the network block
ServerLoopTestNoNetwork(slots) == slots.coreData = None \/ slots.securityData = None

\* the loop test of ServerConnectionParser.doParse (line 401)
ServerLoopTest(slots) ==
    \/ slots.coreData = None
    \/ slots.securityData = None
    \/ slots.networkData = None

-----------------------------------------------------------------------------
(* Sample structures *)

HostName == <<104, 111, 115, 116>>

\* a client name that fills the 32 bytes of its field
FullName == [i \in 1..16 |-> 96 + i]

CoreMandatorySample(name) ==
    [version |-> 524292, desktopWidth |-> 1024, desktopHeight |-> 768, colorDepth |-> 51713,
     sasSequence |-> 43523, keyboardLayout |-> 1033, clientBuild |-> 2600,
     clientName |-> name, keyboardType |-> 4, keyboardSubType |-> 0,
     keyboardFunctionKey |-> 12, imeFileName |-> Zeros(64)]

\* the value each optional field of the client core takes when it is set
CoreOptionalSample(connectionType, orientation) ==
    [postBeta2ColorDepth |-> 51714, clientProductId |-> 1, serialNumber |-> 0,
     highColorDepth |-> 24, supportedColorDepths |-> 7, earlyCapabilityFlags |-> 1,
     clientDigProductId |-> [i \in 1..32 |-> 64 + i], connectionType |-> connectionType,
     serverSelectedProtocol |-> 3, desktopPhysicalWidth |-> 300,
     desktopPhysicalHeight |-> 200, desktopOrientation |-> orientation,
     desktopScaleFactor |-> 100, deviceScaleFactor |-> 140]

\* a client core with the optional fields named in present set
ClientCoreSample(name, connectionType, orientation, present) ==
    LET o == CoreOptionalSample(connectionType, orientation)
    IN  ("header" :> CLIENT_CORE) @@ CoreMandatorySample(name)
        @@ [n \in FieldNames(ClientCoreOptional) |-> IF n \in present THEN Some(o[n]) ELSE None]

PrefixNames(names, j) == {names[i] : i \in 1..j}

\* RSA keys: 263 with exponent 3, 2^32 + 1 with exponent 65537
KeySamples == {[n |-> <<1, 7>>, e |-> 3], [n |-> <<1, 0, 0, 0, 1>>, e |-> 65537]}

CertificateSamples ==
    {ProprietaryCertificate(1, 1, 6, k, 8, sig, pad) :
        k \in KeySamples, sig \in {<<>>, <<9, 200>>}, pad \in {Zeros(8), <<>>}}

ServerCoreSamples ==
    {ServerCoreData(524292, None, None), ServerCoreData(524292, Some(1), None),
     ServerCoreData(524292, Some(0), None), ServerCoreData(524292, Some(1), Some(5)),
     ServerCoreData(524293, Some(-1), Some(0))}

RandomSamples == {<<>>, <<17, 34>>, [i \in 1..32 |-> i]}

ServerSecuritySamples ==
    {ServerSecurityData(m, l, None, None) : m \in {0, 2}, l \in {0, 2}}
    \cup {ServerSecurityData(2, 2, Some(r), None) : r \in RandomSamples}
    \cup {ServerSecurityData(2, 2, Some(r), Some(c)) : r \in RandomSamples, c \in CertificateSamples}

-----------------------------------------------------------------------------
(* Truncated block payloads given to the three parsers with optional groups *)

CascadeClientCorePayloads ==
    {writeClientCoreData(ClientCoreSample(HostName, ct, o, FieldNames(ClientCoreOptional))).val :
        ct \in {6, 99}, o \in {90, 45}}

CascadeServerCorePayloads ==
    {writeServerCoreData(c).val : c \in {x \in ServerCoreSamples : x.earlyCapabilityFlags # None}}

\* written security blocks, and blocks whose certificate is not a proprietary
\* one, whose certificate length says more than there is, whose method is no
\* member of the enumeration
CascadeServerSecurityPayloads ==
    {writeServerSecurityData(x).val : x \in {y \in ServerSecuritySamples : y.serverCertificate # None}}
    \cup {ToLE(2, 4) \o ToLE(2, 4) \o ToLE(2, 4) \o ToLE(4, 4) \o <<17, 34>> \o ToLE(2, 4),
          ToLE(2, 4) \o ToLE(2, 4) \o ToLE(2, 4) \o ToLE(-1, 4) \o <<17, 34, 1, 0, 0, 0>>,
          ToLE(3, 4) \o ToLE(2, 4) \o ToLE(0, 4) \o ToLE(0, 4)}

Truncations(payloads) == UNION {{Take(b, k) : k \in 0..Len(b)} : b \in payloads}

InitCascade ==
    /\ \/ mode = "cascade.clientCore" /\ wire \in {Ok(b) : b \in Truncations(CascadeClientCorePayloads)}
       \/ mode = "cascade.serverCore" /\ wire \in {Ok(b) : b \in Truncations(CascadeServerCorePayloads)}
       \/ mode = "cascade.serverSecurity"
          /\ wire \in {Ok(b) : b \in Truncations(CascadeServerSecurityPayloads)}
    /\ pdu = <<>>
    /\ pos = 0
    /\ locals = NoLocals
    /\ pc = "parse"
    /\ ret = Pending

CascadeParseClientCore ==
    /\ pc = "parse" /\ mode = "cascade.clientCore"
    /\ ret' = parseClientCoreData(wire.val)
    /\ pc' = "done"
    /\ UNCHANGED <<mode, pdu, wire, pos, locals>>

CascadeParseServerCore ==
    /\ pc = "parse" /\ mode = "cascade.serverCore"
    /\ ret' = parseServerCoreData(wire.val)
    /\ pc' = "done"
    /\ UNCHANGED <<mode, pdu, wire, pos, locals>>

CascadeParseServerSecurity ==
    /\ pc = "parse" /\ mode = "cascade.serverSecurity"
    /\ ret' = parseServerSecurityData(wire.val)
    /\ pc' = "done"
    /\ UNCHANGED <<mode, pdu, wire, pos, locals>>

NextCascade == CascadeParseClientCore \/ CascadeParseServerCore \/ CascadeParseServerSecurity

SpecCascade == InitCascade /\ [][NextCascade]_vars

-----------------------------------------------------------------------------
(* Claims about the optional groups *)

\* the fields named by names (in wire order) that are set in rec are names[1..j] for some j
IsPrefixSet(rec, names) ==
    \A i, j \in 1..Len(names) : i < j /\ rec[names[j]] # None => rec[names[i]] # None

ClientCoreOptionalNames == OrderedNames(ClientCoreOptional)

ServerCoreOptionalNames == OrderedNames(ServerCoreOptional)

ServerSecurityOptionalNames == <<"serverRandom", "serverCertificate">>

\* C1: a client core, server core or server security payload truncated at any
\* byte either fails to parse or parses to a structure whose optional fields
\* are set for a prefix of the wire order and None from there on.
C1_CascadeMonotone ==
    (pc = "done" /\ ret.err = "") =>
        /\ mode = "cascade.clientCore" => IsPrefixSet(ret.val, ClientCoreOptionalNames)
        /\ mode = "cascade.serverCore" => IsPrefixSet(ret.val, ServerCoreOptionalNames)
        /\ mode = "cascade.serverSecurity" => IsPrefixSet(ret.val, ServerSecurityOptionalNames)

\* a client core payload cut in the middle of serialNumber has been parsed:
\* the two fields before it are set and serialNumber is not
C1_Witness ==
    /\ mode = "cascade.clientCore"
    /\ Len(wire.val) = 134
    /\ pc = "done" /\ ret.err = ""
    /\ ret.val.clientProductId # None
    /\ ret.val.serialNumber = None

-----------------------------------------------------------------------------
(* ClientConnectionParser: blocks written and parsed, network payloads parsed *)

\* "rdpdr", "snd"
AsciiNames == {<<114, 100, 112, 100, 114>>, <<115, 110, 100>>}

\* channel names as text: ASCII names of 0, 5, 8 and 9 characters, five times
\* U+00E9 (10 bytes of UTF-8), seven ASCII characters and U+00E9 (9 bytes)
NameTexts ==
    {<<>>, <<114, 100, 112, 100, 114>>, [i \in 1..8 |-> 48 + i], [i \in 1..9 |-> 48 + i],
     [i \in 1..5 |-> 233], [i \in 1..8 |-> IF i = 8 THEN 233 ELSE 96 + i]}

\* channel options: 0 and 0xC0000000
OptionSamples == {0, -1073741824}

MonitorAttributeSample == ClientMonitorAttribute(300, 200, 90, 100, 140)

ClientCoreSamples ==
    {ClientCoreSample(name, 6, 90, PrefixNames(ClientCoreOptionalNames, j)) :
        name \in {HostName, FullName}, j \in 0..Len(ClientCoreOptionalNames)}

ClientNetworkSamples(names) ==
    {ClientNetworkData(defs) :
        defs \in BoundedSeq({ClientChannelDefinition(n, o) : n \in names, o \in OptionSamples},
                            MaxChannels)}

ClientSubBlockSamples ==
    ClientCoreSamples
    \cup {ClientSecurityData(m, x) : m \in {0, 3}, x \in {0, 1}}
    \cup ClientNetworkSamples(AsciiNames)
    \cup {ClientClusterData(f, 0) : f \in {0, 13}}
    \cup {ClientMonitorData(0, 20, n, [i \in 1..n |-> MonitorAttributeSample]) : n \in 0..2}
    \cup {ClientMonitorExData(0, 20, n, [i \in 1..n |-> MonitorAttributeSample]) : n \in 0..2}
    \cup {ClientMessageChannelData(f) : f \in {0, 1}}
    \cup {ClientMultitransportData(f) : f \in {0, 5}}
    \cup {ClientUnused1Data(f) : f \in {0, 258}}

\* the 12 bytes of channel entries met in network payloads: the legacy name in
\* three letter cases, two ordinary names, the legacy name lying across the name
\* and the options, a name that is no UTF-8 text, a name with a leading and an
\* embedded NUL byte
EntrySamples ==
    {<<77, 83, 95, 84, 49, 50, 48, 0>> \o ToLE(0, 4),
     <<109, 115, 95, 116, 49, 50, 48, 0>> \o ToLE(-1073741824, 4),
     <<77, 115, 95, 116, 49, 50, 48, 0>> \o ToLE(0, 4),
     <<114, 100, 112, 100, 114, 0, 0, 0>> \o ToLE(0, 4),
     <<114, 100, 112, 100, 114, 0, 0, 0>> \o ToLE(-1073741824, 4),
     <<99, 108, 105, 112, 114, 100, 114, 0>> \o ToLE(0, 4),
     <<97, 98, 99, 100, 101, 77, 83, 95>> \o <<84, 49, 50, 48>>,
     <<255, 0, 0, 0, 0, 0, 0, 0>> \o ToLE(0, 4),
     <<0, 97, 0, 98, 0, 0, 0, 0>> \o ToLE(0, 4)}

\* bytes after the last entry: none, one byte, the legacy name in lower case
ExtraSamples == {<<>>, <<7>>, <<109, 115, 95, 116, 49, 50, 48>>}

\* network payloads: a count, entries, extra bytes; the count is the number of
\* entries or not; payloads shorter than the count
NetworkPayloads ==
    {ToLE(c, 4) \o Flatten(es) \o x :
        c \in 0..(MaxChannels + 1), es \in BoundedSeq(EntrySamples, MaxChannels),
        x \in ExtraSamples}
    \cup {<<>>, <<1>>, <<1, 0, 0>>, <<255, 255, 255, 255>> \o Zeros(12)}

SlotSample(slot) ==
    CASE slot = "coreData" ->
            ClientCoreSample(FullName, 6, 90, FieldNames(ClientCoreOptional))
      [] slot = "securityData" -> ClientSecurityData(3, 0)
      [] slot = "networkData" ->
            ClientNetworkData(<<ClientChannelDefinition(<<114, 100, 112, 100, 114>>, 0)>>)
      [] slot = "clusterData" -> ClientClusterData(13, 0)
      [] slot = "monitorData" -> ClientMonitorData(0, 20, 1, <<MonitorAttributeSample>>)
      [] slot = "messageChannelData" -> ClientMessageChannelData(0)
      [] slot = "monitorExData" -> ClientMonitorExData(0, 20, 1, <<MonitorAttributeSample>>)
      [] slot = "multitransportData" -> ClientMultitransportData(5)
      [] slot = "unused1Data" -> ClientUnused1Data(0)

SlotNames == {ClientSlots[i] : i \in 1..Len(ClientSlots)}

\* the ClientDataPDU with the blocks of present set
ClientDataPDUSample(present) ==
    [n \in SlotNames |-> IF n \in present THEN Some(SlotSample(n)) ELSE None]

\* blocks a client sends in an order of its own: the four of the loop test, a
\* monitor block and a message channel block, each at most once
OrderedSlots == {"coreData", "securityData", "networkData", "clusterData", "monitorData",
                 "messageChannelData"}

BlockOrders ==
    {s \in BoundedSeq(OrderedSlots, Cardinality(OrderedSlots)) :
        \A i, j \in 1..Len(s) : i # j => s[i] # s[j]}

BlocksInOrder(s) == CatAll([i \in 1..Len(s) |-> Client_writeStructure(SlotSample(s[i]))])

InitClient ==
    /\ \/ /\ mode = "client.structure"
          /\ pdu \in ClientSubBlockSamples
          /\ wire = Pending
          /\ pc = "write"
       \/ /\ mode = "client.names"
          /\ pdu \in ClientNetworkSamples(NameTexts)
          /\ wire = Pending
          /\ pc = "write"
       \/ /\ mode = "client.network"
          /\ pdu = <<>>
          /\ wire \in {Ok(b) : b \in NetworkPayloads}
          /\ pc = "parse"
       \/ /\ mode = "client.pdu"
          /\ pdu \in {ClientDataPDUSample(present) : present \in SUBSET SlotNames}
          /\ wire = Pending
          /\ pc = "write"
       \/ /\ mode = "client.blocks"
          /\ \E s \in BlockOrders :
                /\ pdu = ClientDataPDUSample({s[i] : i \in 1..Len(s)})
                /\ wire = BlocksInOrder(s)
          /\ pc = "loop"
    /\ pos = 0
    /\ locals = EmptyClientDataPDU
    /\ ret = Pending

\* writeStructure for one block
ClientWriteStructure ==
    /\ pc = "write" /\ mode = "client.structure"
    /\ wire' = Client_writeStructure(pdu)
    /\ pc' = IF wire'.err = "" THEN "parse" ELSE "done"
    /\ ret' = IF wire'.err = "" THEN Pending ELSE Fail(wire'.err)
    /\ UNCHANGED <<mode, pdu, pos, locals>>

\* parseStructure on the bytes writeStructure gave
ClientParseStructure ==
    /\ pc = "parse" /\ mode = "client.structure"
    /\ LET r == Client_parseStructure(wire.val, 0)
       IN  /\ ret' = [err |-> r.err, val |-> r.val]
           /\ pos' = r.pos
    /\ pc' = "done"
    /\ UNCHANGED <<mode, pdu, wire, locals>>

\* writeClientNetworkData
ClientWriteNetwork ==
    /\ pc = "write" /\ mode = "client.names"
    /\ wire' = writeClientNetworkData(pdu)
    /\ pc' = "done"
    /\ ret' = IF wire'.err = "" THEN Pending ELSE Fail(wire'.err)
    /\ UNCHANGED <<mode, pdu, pos, locals>>

\* parseClientNetworkData
ClientParseNetwork ==
    /\ pc = "parse" /\ mode = "client.network"
    /\ ret' = parseClientNetworkData(wire.val)
    /\ pc' = "done"
    /\ UNCHANGED <<mode, pdu, wire, pos, locals>>

\* ClientConnectionParser.write
ClientWrite ==
    /\ pc = "write" /\ mode = "client.pdu"
    /\ wire' = Client_write(pdu)
    /\ pc' = IF wire'.err = "" THEN "loop" ELSE "done"
    /\ ret' = IF wire'.err = "" THEN Pending ELSE Fail(wire'.err)
    /\ UNCHANGED <<mode, pdu, pos, locals>>

\* one turn of the loop of doParse: a structure is parsed and stored
ClientParseBlock ==
    /\ pc = "loop"
    /\ ClientLoopTest(wire.val, pos, locals)
    /\ LET r == Client_parseStructure(wire.val, pos)
       IN  IF r.err # ""
           THEN /\ ret' = Fail(r.err)
                /\ pc' = "done"
                /\ pos' = r.pos
                /\ UNCHANGED locals
           ELSE /\ locals' = [locals EXCEPT ![ClientSlotOf(r.val.header)] = Some(r.val)]
                /\ pos' = r.pos
                /\ UNCHANGED <<pc, ret>>
    /\ UNCHANGED <<mode, pdu, wire>>

\* the loop test fails: doParse returns the ClientDataPDU
ClientReturn ==
    /\ pc = "loop"
    /\ ~ClientLoopTest(wire.val, pos, locals)
    /\ ret' = Ok(locals)
    /\ pc' = "done"
    /\ UNCHANGED <<mode, pdu, wire, pos, locals>>

NextClient ==
    \/ ClientWriteStructure
    \/ ClientParseStructure
    \/ ClientWriteNetwork
    \/ ClientParseNetwork
    \/ ClientWrite
    \/ ClientParseBlock
    \/ ClientReturn

SpecClient == InitClient /\ [][NextClient]_vars

-----------------------------------------------------------------------------
(* Claims about the client connection parser *)

\* C3: every client sub-block that is written and parsed back comes back as
\* it was: the write succeeds, the parse succeeds, the parsed value equals the
\* original one, optional fields included.
C3_ClientSubBlockRoundTrip ==
    (mode = "client.structure" /\ pc = "done") =>
        /\ wire.err = ""
        /\ ret.err = ""
        /\ ret.val = pdu

FourSeen(p) ==
    /\ p.coreData # None
    /\ p.securityData # None
    /\ p.networkData # None
    /\ p.clusterData # None

\* C7: when doParse returns for an input that holds core, security, network
\* and cluster blocks, every block of the input is set in the ClientDataPDU it
\* returns, those that come after the four included.
C7_BlocksAfterMandatoryKept ==
    (mode \in {"client.pdu", "client.blocks"} /\ pc = "done" /\ ret.err = "" /\ FourSeen(pdu)) =>
        \A s \in SlotNames : pdu[s] # None => ret.val[s] # None

\* the seven letters M S _ T 1 2 0, each in either case, somewhere in bs
HasLegacyName(bs) ==
    \E i \in 0..(Len(bs) - 7) :
        \A k \in 1..7 :
            \/ bs[i + k] = MS_T120[k]
            \/ MS_T120[k] \in 65..90 /\ bs[i + k] = MS_T120[k] + 32

\* the channel count of a network payload of 4 bytes or more
CountOf(bs) == FromLE(Take(bs, 4))

\* C8: a network payload that holds the legacy channel name in any letter case
\* fails with the exploit error, whether its array size fits its count or not.
C8_ExploitSignaturePrecedence ==
    (mode = "client.network" /\ pc = "done" /\ HasLegacyName(wire.val)) =>
        ret.err = "ExploitError"

\* a payload with the name in lower case only and an array that is no whole
\* number of entries has been refused with the exploit error
C8_Witness ==
    /\ mode = "client.network" /\ pc = "done"
    /\ HasLegacyName(wire.val)
    /\ ~Contains(wire.val, MS_T120)
    /\ Len(wire.val) >= 4 /\ (Len(wire.val) - 4) % 12 # 0
    /\ ret.err = "ExploitError"

\* C9: a network payload of 4 bytes or more without the legacy name, whose
\* bytes after the count are not 12 times the count, fails with the parsing
\* error and returns no channel definition.
C9_LengthMismatchRejected ==
    (/\ mode = "client.network" /\ pc = "done"
     /\ ~HasLegacyName(wire.val)
     /\ Len(wire.val) >= 4
     /\ Len(wire.val) - 4 # CountOf(wire.val) * 12) =>
        ret = Fail("ParsingError")

\* a payload with one entry more than its count says has been refused
C9_Witness ==
    /\ mode = "client.network" /\ pc = "done"
    /\ ~HasLegacyName(wire.val)
    /\ CountOf(wire.val) = 1
    /\ Len(wire.val) = 4 + 2 * 12
    /\ ret = Fail("ParsingError")

\* C11: a network payload without the legacy name whose bytes after the count
\* are 12 times the count parses without error into as many channel
\* definitions as the count says, whatever the 8 name bytes of its entries are.
C11_NameReadAlwaysSucceeds ==
    (/\ mode = "client.network" /\ pc = "done"
     /\ ~HasLegacyName(wire.val)
     /\ Len(wire.val) >= 4
     /\ CountOf(wire.val) >= 0
     /\ Len(wire.val) - 4 = CountOf(wire.val) * 12) =>
        /\ ret.err = ""
        /\ Len(ret.val.channelDefinitions) = CountOf(wire.val)

\* C10: writeClientNetworkData fails with the parsing error when a name has
\* more than 8 characters, and when it succeeds the 8 name bytes of every entry
\* are the whole encoded name followed by NUL bytes.
C10_NamesNeverTruncated ==
    (mode = "client.names" /\ pc = "done") =>
        /\ (\E i \in 1..Len(pdu.channelDefinitions) : Len(pdu.channelDefinitions[i].name) > 8)
              => wire.err = "ParsingError"
        /\ wire.err = "" =>
              \A i \in 1..Len(pdu.channelDefinitions) :
                  LET encoded == Utf8Encode(pdu.channelDefinitions[i].name)
                      field == SubSeq(wire.val, 4 + 12 * (i - 1) + 1, 4 + 12 * (i - 1) + 8)
                  IN  /\ Len(encoded) <= 8
                      /\ field = encoded \o Zeros(8 - Len(encoded))

-----------------------------------------------------------------------------
(* ServerConnectionParser: a block is parsed, written and parsed again *)

InitServer ==
    /\ \/ mode = "server.core" /\ wire \in {Ok(b) : b \in Truncations(CascadeServerCorePayloads)}
       \/ mode = "server.security"
          /\ wire \in {Ok(b) : b \in Truncations(CascadeServerSecurityPayloads)}
    /\ pdu = <<>>
    /\ pos = 0
    /\ locals = NoLocals
    /\ pc = "produce"
    /\ ret = Pending

\* the parser and the writer of the block of a mode
ServerParserOf(m, data) ==
    IF m = "server.core" THEN parseServerCoreData(data) ELSE parseServerSecurityData(data)

ServerWriterOf(m, data) ==
    IF m = "server.core" THEN writeServerCoreData(data) ELSE writeServerSecurityData(data)

\* the parser gives a structure or refuses the bytes
ServerProduce ==
    /\ pc = "produce"
    /\ LET r == ServerParserOf(mode, wire.val)
       IN  IF r.err # ""
           THEN /\ ret' = r
                /\ pc' = "rejected"
                /\ UNCHANGED pdu
           ELSE /\ pdu' = r.val
                /\ pc' = "write"
                /\ UNCHANGED ret
    /\ UNCHANGED <<mode, wire, pos, locals>>

\* the writer gives the bytes of the structure
ServerWriteBlock ==
    /\ pc = "write"
    /\ wire' = ServerWriterOf(mode, pdu)
    /\ pc' = IF wire'.err = "" THEN "parse" ELSE "done"
    /\ ret' = IF wire'.err = "" THEN Pending ELSE Fail(wire'.err)
    /\ UNCHANGED <<mode, pdu, pos, locals>>

\* the parser reads the written bytes
ServerParseBlock ==
    /\ pc = "parse"
    /\ ret' = ServerParserOf(mode, wire.val)
    /\ pc' = "done"
    /\ UNCHANGED <<mode, pdu, wire, pos, locals>>

NextServer == ServerProduce \/ ServerWriteBlock \/ ServerParseBlock

SpecServer == InitServer /\ [][NextServer]_vars

-----------------------------------------------------------------------------
(* writePublicKey and parsePublicKey on the keys RSA.construct admits *)

MaxModulusBytes == 3

ModulusByteSamples == {0, 1, 7, 128, 255}

ExponentSamples == {3, 5, 17, 65537}

\* moduli as long_to_bytes gives them: big-endian, no leading zero byte
ModulusSamples == {n \in BoundedSeq(ModulusByteSamples, MaxModulusBytes) : n # <<>> /\ n[1] # 0}

\* the public keys an RsaKey can hold: those RSA.construct builds
PublicKeys ==
    {k \in [n : ModulusSamples, e : ExponentSamples] : RSAConstruct(k.n, k.e).err = ""}

InitKey ==
    /\ mode = "server.key"
    /\ pdu \in PublicKeys
    /\ wire = Pending
    /\ pos = 0
    /\ locals = NoLocals
    /\ pc = "write"
    /\ ret = Pending

\* writePublicKey(publicKey)
KeyWrite ==
    /\ pc = "write"
    /\ wire' = writePublicKey(pdu)
    /\ pc' = IF wire'.err = "" THEN "parse" ELSE "done"
    /\ UNCHANGED <<mode, pdu, pos, locals, ret>>

\* parsePublicKey(data) on the written bytes
KeyParse ==
    /\ pc = "parse"
    /\ ret' = parsePublicKey(wire.val)
    /\ pc' = "done"
    /\ UNCHANGED <<mode, pdu, wire, pos, locals>>

NextKey == KeyWrite \/ KeyParse

SpecKey == InitKey /\ [][NextKey]_vars

-----------------------------------------------------------------------------
(* parseClientCoreData and writeClientCoreData on client core payloads and on
   client core structures whose optional fields are set with gaps *)

\* the 32 bytes of the client name field: "host" and NULs, a name that fills
\* the field, NULs alone, 16 code units 0xffff
CoreNameBytes ==
    {LjustCut(encodeUTF16LE(Some(HostName)).val, 32), encodeUTF16LE(Some(FullName)).val,
     Zeros(32), [i \in 1..32 |-> 255]}

\* the bytes of the mandatory fields, in the order parseClientCoreData reads them
CoreMandatoryBytes(version, colorDepth, name, ime) ==
    ToLE(version, 4) \o ToLE(1024, 2) \o ToLE(768, 2) \o ToLE(colorDepth, 2) \o ToLE(43523, 2)
    \o ToLE(1033, 4) \o ToLE(2600, 4) \o name \o ToLE(4, 4) \o ToLE(0, 4) \o ToLE(12, 4) \o ime

CoreMandatoryPayloads ==
    {CoreMandatoryBytes(v, c, n, ime) :
        v \in {524289, 524292}, c \in {51713, 51716}, n \in CoreNameBytes,
        ime \in {Zeros(64), [i \in 1..64 |-> i]}}

\* the bytes of all optional fields, and every prefix of them
CoreOptionalBytes ==
    WriteOptional(ClientCoreOptional,
                  ClientCoreSample(HostName, 6, 90, FieldNames(ClientCoreOptional))).val

CoreOptionalTails == {Take(CoreOptionalBytes, k) : k \in 0..Len(CoreOptionalBytes)}

\* the names of the optional fields set when field j is the first absent one:
\* the fields before j, and none, one or all of the fields after j
GapSets ==
    LET names == ClientCoreOptionalNames
        n == Len(names)
    IN  {PrefixNames(names, n)}
        \cup UNION {{PrefixNames(names, j - 1) \cup later :
                        later \in {{}, {names[i] : i \in (j + 1)..n}}
                                  \cup {{names[i]} : i \in (j + 1)..n}} : j \in 1..n}

InitCore ==
    /\ \/ /\ mode = "core.parse"
          /\ pdu = <<>>
          /\ \E m \in CoreMandatoryPayloads, t \in CoreOptionalTails :
                /\ wire = Ok(m \o t)
                /\ locals = [mandatory |-> m, optional |-> t]
          /\ pc = "parse"
       \/ /\ mode = "core.write"
          /\ pdu \in {ClientCoreSample(name, 6, 90, present) :
                        name \in {HostName, FullName}, present \in GapSets}
          /\ wire = Pending
          /\ locals = NoLocals
          /\ pc = "write"
    /\ pos = 0
    /\ ret = Pending

\* parseClientCoreData(stream)
CoreParse ==
    /\ pc = "parse"
    /\ \E r \in {parseClientCoreData(wire.val)} :
          IF r.err # ""
          THEN /\ ret' = Fail(r.err)
               /\ pc' = "done"
               /\ UNCHANGED pdu
          ELSE /\ pdu' = r.val
               /\ pc' = "write"
               /\ UNCHANGED ret
    /\ UNCHANGED <<mode, wire, pos, locals>>

\* writeClientCoreData(stream, core)
CoreWrite ==
    /\ pc = "write"
    /\ ret' = writeClientCoreData(pdu)
    /\ pc' = "done"
    /\ UNCHANGED <<mode, pdu, wire, pos, locals>>

NextCore == CoreParse \/ CoreWrite

SpecCore == InitCore /\ [][NextCore]_vars

-----------------------------------------------------------------------------
(* parseStructure of both parsers on one block: a header, a declared length,
   and some bytes after them *)

\* declared lengths below 4, of the size of the payloads drawn, and beyond
DeclaredLengths == {0, 1, 2, 3, 4, 5, 6, 8, 10, 12, 16, 20, 65535}

\* the bytes after the four header bytes: a server core payload (version,
\* clientRequestedProtocols, earlyCapabilityFlags) and the header of a next
\* block, cut at every length
FrameBytes == ToLE(524292, 4) \o ToLE(1, 4) \o ToLE(5, 4) \o ToLE(SERVER_MSGCHANNEL, 2) \o ToLE(6, 2)

FrameRests == {Take(FrameBytes, k) : k \in 0..Len(FrameBytes)}

InitFrame ==
    /\ \E h \in {CLIENT_SECURITY, CLIENT_CLUSTER, SERVER_CORE, SERVER_MSGCHANNEL},
          d \in DeclaredLengths, rest \in FrameRests :
          /\ mode = IF h \in {CLIENT_SECURITY, CLIENT_CLUSTER} THEN "client.frame" ELSE "server.frame"
          /\ wire = Ok(ToLE(h, 2) \o ToLE(d, 2) \o rest)
    /\ pdu = <<>>
    /\ pos = 0
    /\ locals = [header |-> 0, data |-> <<>>]
    /\ pc = "read"
    /\ ret = Pending

\* parseStructure up to the length test: the header, the length, the payload
FrameRead ==
    /\ pc = "read"
    /\ \E r \in {IF mode = "client.frame" THEN Client_readStructure(wire.val, 0)
                 ELSE Server_readStructure(wire.val, 0)} :
          /\ pos' = r.pos
          /\ IF r.err # ""
             THEN /\ ret' = Fail(r.err)
                  /\ pc' = "done"
                  /\ UNCHANGED locals
             ELSE /\ locals' = [header |-> r.header, data |-> r.data]
                  /\ pc' = "dispatch"
                  /\ UNCHANGED ret
    /\ UNCHANGED <<mode, pdu, wire>>

\* parseStructure from the length test on: the payload is handed to the
\* parser of the header
FrameDispatch ==
    /\ pc = "dispatch"
    /\ ret' = IF mode = "client.frame" THEN ClientParsers(locals.header, locals.data)
              ELSE ServerParsers(locals.header, locals.data)
    /\ pc' = "done"
    /\ UNCHANGED <<mode, pdu, wire, pos, locals>>

NextFrame == FrameRead \/ FrameDispatch

SpecFrame == InitFrame /\ [][NextFrame]_vars

-----------------------------------------------------------------------------
(* writeServerNetworkData and parseServerNetworkData on channel id lists *)

MaxServerChannels == 4

ChannelIdSamples == {0, 1004, 65535}

InitNet ==
    /\ mode = "server.network"
    /\ pdu \in {ServerNetworkData(m, ch) :
                  m \in {0, 1003, 65535}, ch \in BoundedSeq(ChannelIdSamples, MaxServerChannels)}
    /\ wire = Pending
    /\ pos = 0
    /\ locals = NoLocals
    /\ pc = "write"
    /\ ret = Pending

\* writeServerNetworkData(stream, data)
NetWrite ==
    /\ pc = "write"
    /\ wire' = writeServerNetworkData(pdu)
    /\ pc' = IF wire'.err = "" THEN "parse" ELSE "done"
    /\ UNCHANGED <<mode, pdu, pos, locals, ret>>

\* parseServerNetworkData(stream) on the written bytes
NetParse ==
    /\ pc = "parse"
    /\ ret' = parseServerNetworkData(wire.val)
    /\ pc' = "done"
    /\ UNCHANGED <<mode, pdu, wire, pos, locals>>

NextNet == NetWrite \/ NetParse

SpecNet == InitNet /\ [][NextNet]_vars

-----------------------------------------------------------------------------
(* ServerConnectionParser.doParse on server blocks in every order, followed by
   bytes of any kind, and on the bytes write gives *)

ServerSlotNames == {ServerSlots[i] : i \in 1..Len(ServerSlots)}

ServerSlotSample(slot) ==
    CASE slot = "coreData" -> ServerCoreData(524292, Some(1), Some(5))
      [] slot = "securityData" -> ServerSecurityData(2, 2, None, None)
      [] slot = "networkData" -> ServerNetworkData(1003, <<1004>>)
      [] slot = "messageChannelData" -> ServerMessageChannelData(1005)
      [] slot = "multitransportData" -> ServerMultitransportData(1)

ServerDataPDUSample(present) ==
    [n \in ServerSlotNames |-> IF n \in present THEN Some(ServerSlotSample(n)) ELSE None]

\* blocks a server sends in an order of its own, each at most once
ServerBlockOrders ==
    {s \in BoundedSeq(ServerSlotNames, Len(ServerSlots)) :
        \A i, j \in 1..Len(s) : i # j => s[i] # s[j]}

ServerBlocksInOrder(s) ==
    CatAll([i \in 1..Len(s) |-> Server_writeStructure(ServerSlotSample(s[i]))])

\* what follows the blocks: nothing, one byte, a block of an unknown type, a
\* core block whose length says more than there is
ServerTails ==
    {<<>>, <<255>>, ToLE(65535, 2) \o ToLE(4, 2), ToLE(SERVER_CORE, 2) \o ToLE(400, 2) \o <<1>>}

InitServerData ==
    /\ \/ /\ mode = "server.blocks"
          /\ \E s \in ServerBlockOrders, t \in ServerTails :
                /\ pdu = [order |-> s, tail |-> t]
                /\ wire = Ok(ServerBlocksInOrder(s).val \o t)
          /\ pc = "loop"
       \/ /\ mode = "server.pdu"
          /\ pdu \in {ServerDataPDUSample(present) : present \in SUBSET ServerSlotNames}
          /\ wire = Pending
          /\ pc = "write"
    /\ pos = 0
    /\ locals = EmptyServerDataPDU
    /\ ret = Pending

\* write(pdu)
ServerDataWrite ==
    /\ pc = "write"
    /\ wire' = Server_write(pdu)
    /\ pc' = IF wire'.err = "" THEN "loop" ELSE "done"
    /\ ret' = IF wire'.err = "" THEN Pending ELSE Fail(wire'.err)
    /\ UNCHANGED <<mode, pdu, pos, locals>>

\* one turn of the loop of doParse: a structure is parsed and stored. (The
\* else branch of line 414 and the break of line 417 are never taken:
\* parseStructure has refused an unknown header, and has raised on an empty
\* stream.)
ServerDataParseBlock ==
    /\ pc = "loop"
    /\ ServerLoopTest(locals)
    /\ \E r \in {Server_parseStructure(wire.val, pos)} :
          IF r.err # ""
          THEN /\ ret' = Fail(r.err)
               /\ pc' = "done"
               /\ pos' = r.pos
               /\ UNCHANGED locals
          ELSE /\ locals' = [locals EXCEPT ![ServerSlotOf(r.val.header)] = Some(r.val)]
               /\ pos' = r.pos
               /\ UNCHANGED <<pc, ret>>
    /\ UNCHANGED <<mode, pdu, wire>>

\* the loop test fails: doParse returns the ServerDataPDU
ServerDataReturn ==
    /\ pc = "loop"
    /\ ~ServerLoopTest(locals)
    /\ ret' = Ok(locals)
    /\ pc' = "done"
    /\ UNCHANGED <<mode, pdu, wire, pos, locals>>

NextServerData == ServerDataWrite \/ ServerDataParseBlock \/ ServerDataReturn

SpecServerData == InitServerData /\ [][NextServerData]_vars

-----------------------------------------------------------------------------
(* Claims about the server connection parser *)

\* C4: a server core or server security structure the parser has produced,
\* written and parsed again, comes back as it was: the write succeeds, the
\* parse succeeds and the parsed value equals the written one, optional fields
\* included.
C4_ServerSubBlockRoundTrip ==
    (mode \in {"server.core", "server.security"} /\ pc = "done") =>
        /\ wire.err = ""
        /\ ret.err = ""
        /\ ret.val = pdu

-----------------------------------------------------------------------------
(* Claims about the dynamic channel parser *)

InterpretedCommands == {CREATE, DATA_FIRST, DATA, DATA_FIRST_COMPRESSED, DATA_COMPRESSED, CLOSE}

\* C2: parsing any finite byte buffer terminates: every run of doParse reaches
\* its return or its raise (a create request whose name has no NUL terminator
\* before the end of the buffer included).
C2_ParsingTerminates == <>(pc = "done")

\* the loop of the CREATE branch is at the end of the buffer, where
\* stream.read(1) returns the empty string and the loop test passes again
C2_Spinning == pc = "name" /\ pos = Len(wire.val)

\* the field values of a hand-built PDU fit the widths its cbid and sp select
FitsWidths(p) ==
    /\ "channelId" \in DOMAIN p.fields => writeChannelId(p.cbid, p.fields.channelId).err = ""
    /\ "length" \in DOMAIN p.fields => IntPack(Some(p.fields.length), WidthOf(p.sp)).err = ""

ConcreteVariants ==
    {"CreateRequestPDU", "CreateResponsePDU", "CapabilityResponsePDU", "DynamicDataFirstPDU",
     "DynamicDataFirstCompressedPDU", "DynamicDataPDU", "DynamicDataCompressedPDU",
     "CloseDynamicChannelPDU"}

DataAndCloseVariants ==
    {"DynamicDataFirstPDU", "DynamicDataFirstCompressedPDU", "DynamicDataPDU",
     "DynamicDataCompressedPDU", "CloseDynamicChannelPDU"}

RoundTripCase(types) ==
    /\ mode = "dyn.roundtrip"
    /\ pdu.type \in types
    /\ pdu.cbid \in 0..2
    /\ pdu.sp \in 0..2
    /\ FitsWidths(pdu)

\* C5 as stated: every concrete variant with cbid and sp in {0,1,2} and fitting
\* field values is written without error and parsed back as the same variant
\* with the same fields.
C5_AllVariantsRoundTrip ==
    RoundTripCase(ConcreteVariants) =>
        /\ pc # "name"
        /\ pc = "done" => wire.err = "" /\ ret = Ok(pdu)

\* C5 amended: the round trip holds for DataFirst, DataFirstCompressed, Data,
\* DataCompressed and Close; write raises NotImplementedError for a
\* CreateRequest; a CreateResponse is written and its bytes never parse back
\* as a CreateResponse (doParse reads cmd CREATE as a create request); a
\* CapabilityResponse is written and parses back as the generic variant.
C5_DataAndCloseRoundTrip ==
    /\ RoundTripCase(DataAndCloseVariants) =>
          /\ pc # "name"
          /\ pc = "done" => wire.err = "" /\ ret = Ok(pdu)
    /\ RoundTripCase({"CreateRequestPDU"}) /\ pc = "done" => wire.err = "NotImplementedError"
    /\ RoundTripCase({"CreateResponsePDU"}) /\ pc # "write" =>
          /\ wire.err = ""
          /\ pc = "done" /\ ret.err = "" => ret.val.type = "CreateRequestPDU"
    /\ RoundTripCase({"CapabilityResponsePDU"}) /\ pc = "done" =>
          /\ wire.err = ""
          /\ ret = DynamicChannelPDU(pdu.cbid, pdu.sp, CAPABILITY_REQUEST, <<0>> \o ToLE(pdu.fields.capability, 2))

\* a DataFirst PDU with a four-byte channel id, a two-byte length that needs
\* both bytes and a payload has been written and parsed back
C5_Witness ==
    /\ RoundTripCase({"DynamicDataFirstPDU"})
    /\ pdu.cbid = 2 /\ pdu.sp = 1 /\ pdu.fields.length = 300 /\ pdu.fields.data = <<65, 200>>
    /\ Len(wire.val) = 9
    /\ pc = "done"
    /\ ret = Ok(pdu)

\* C6 as stated: a buffer whose cmd is none of the commands doParse interprets
\* never produces an error; it parses into the generic variant with the raw
\* cbid, sp, cmd and the trailing bytes, and writing that variant gives the
\* buffer back.
C6_UnknownCommandPassThrough ==
    (mode = "dyn.parse" /\ pc = "done" /\ HeaderCmd(wire.val[1]) \notin InterpretedCommands) =>
        /\ ret.err = ""
        /\ ret.val.type = "DynamicChannelPDU"
        /\ ret.val.cbid = HeaderCbid(wire.val[1])
        /\ ret.val.sp = HeaderSp(wire.val[1])
        /\ ret.val.cmd = HeaderCmd(wire.val[1])
        /\ ret.val.fields.payload = Tail(wire.val)
        /\ DynamicChannelParser_write(ret.val) = wire

-----------------------------------------------------------------------------
(* Claims about the width selectors of the dynamic channel parser *)

\* a finished doParse of a drawn buffer whose header carries a command of cmds
ParsedCommand(cmds) ==
    /\ mode = "dyn.parse"
    /\ pc = "done"
    /\ HeaderCmd(wire.val[1]) \in cmds

SelectedWidth(sel) == <<1, 2, 4>>[sel + 1]

DataFirstCommands == {DATA_FIRST, DATA_FIRST_COMPRESSED}

\* C12 as stated: a cbid of 3 fails with the invalid-width error (ValueError)
\* for create, data-first, data, data-first-compressed, data-compressed and
\* close, and an sp of 3 fails with the invalid-width error for data-first and
\* data-first-compressed.
C12_SelectorThreeIsValueError ==
    /\ ParsedCommand(InterpretedCommands) /\ HeaderCbid(wire.val[1]) = 3 =>
          ret.err = "ValueError"
    /\ ParsedCommand(DataFirstCommands) /\ HeaderSp(wire.val[1]) = 3 =>
          ret.err = "ValueError"

\* C12 amended: a cbid of 3 fails with ValueError for the six variants; an sp
\* of 3 fails for data-first and data-first-compressed, with ValueError when
\* the channel id before it could be read and with the channel id's own error
\* (struct.error on a short buffer) otherwise; for cbid and sp in {0,1,2} the
\* channel id is the 1, 2 or 4 bytes after the header and the length the 1, 2
\* or 4 bytes after the channel id, and a buffer too short for them fails.
C12_WidthSelectors ==
    LET h == wire.val[1]
        cbid == HeaderCbid(h)
        sp == HeaderSp(h)
        n == Len(wire.val) - 1
    IN  /\ ParsedCommand(InterpretedCommands) /\ cbid = 3 => ret.err = "ValueError"
        /\ ParsedCommand(DataFirstCommands) /\ sp = 3 /\ cbid # 3 =>
              ret.err = IF n >= SelectedWidth(cbid) THEN "ValueError" ELSE "struct.error"
        /\ ParsedCommand(InterpretedCommands \ {CREATE}) /\ cbid # 3 =>
              IF n < SelectedWidth(cbid) THEN ret.err = "struct.error"
              ELSE ret.err = "" =>
                      ret.val.fields.channelId = FromLE(SubSeq(wire.val, 2, 1 + SelectedWidth(cbid)))
        /\ ParsedCommand(DataFirstCommands) /\ cbid # 3 /\ sp # 3 =>
              LET w == SelectedWidth(cbid) + SelectedWidth(sp)
              IN  IF n < w THEN ret.err = "struct.error"
                  ELSE /\ ret.err = ""
                       /\ ret.val.fields.length =
                              FromLE(SubSeq(wire.val, 2 + SelectedWidth(cbid), 1 + w))
                       /\ ret.val.fields.data = SubSeq(wire.val, 2 + w, Len(wire.val))
        /\ ParsedCommand({CREATE}) /\ cbid # 3 =>
              IF n < SelectedWidth(cbid) THEN ret.err = "struct.error"
              ELSE ret.err = "" =>
                      ret.val.fields.channelId = FromLE(SubSeq(wire.val, 2, 1 + SelectedWidth(cbid)))

\* a data-first buffer with a two-byte channel id, sp = 3 and bytes left for a
\* length has been refused at the length
C12_Witness ==
    /\ ParsedCommand({DATA_FIRST})
    /\ HeaderSp(wire.val[1]) = 3
    /\ HeaderCbid(wire.val[1]) = 1
    /\ Len(wire.val) >= 7
    /\ ret.err = "ValueError"

-----------------------------------------------------------------------------
(* Claims about the header byte of the dynamic channel parser *)

\* C13: for every cbid in 0..3, sp in 0..3 and cmd in 0..15 the header byte
\* cbid | sp << 2 | cmd << 4 is in 0..255, the extraction of doParse gives the
\* same triple back, and no other triple gives the same byte.
C13_HeaderBitPacking ==
    /\ pc # "pack" =>
          /\ wire.err = ""
          /\ Len(wire.val) = 1
          /\ wire.val[1] \in 0..255
          /\ wire.val[1] = pdu.cbid + 4 * pdu.sp + 16 * pdu.cmd
          /\ \A t \in HeaderTriples :
                t # pdu => PackHeader(t.cbid, t.sp, t.cmd) # wire.val[1]
    /\ pc = "done" => ret = Ok(pdu)

\* the triple with every bit set has been packed as 255 and extracted again
C13_Witness ==
    /\ pc = "done"
    /\ pdu = [cbid |-> 3, sp |-> 3, cmd |-> 15]
    /\ wire.val = <<255>>
    /\ ret = Ok(pdu)

-----------------------------------------------------------------------------
(* Claims about the public key of the proprietary certificate *)

-----------------------------------------------------------------------------
(* Claims about the client core block *)

\* the payload drawn holds the mandatory fields and no optional byte
MandatoryOnly == mode = "core.parse" /\ locals.optional = <<>>

OptionalAllAbsent(core) == \A n \in FieldNames(ClientCoreOptional) : core[n] = None

\* C15 as stated: a payload of the mandatory fields followed by zero optional
\* bytes has 88 bytes, parses with every optional field absent and is written
\* back as the same bytes.
C15_MandatoryOnlyIs88Bytes ==
    MandatoryOnly =>
        /\ Len(wire.val) = 88
        /\ pc # "parse" => pc = "write" \/ ret.err = ""
        /\ pc = "write" => OptionalAllAbsent(pdu)
        /\ pc = "done" => ret = Ok(wire.val)

\* C15 amended: a payload of the mandatory fields followed by zero optional
\* bytes has 128 bytes, parses with every optional field absent and is written
\* back as the same 128 bytes.
C15_MandatoryOnlyRoundTrip ==
    MandatoryOnly =>
        /\ Len(wire.val) = 128
        /\ pc # "parse" => pc = "write" \/ ret.err = ""
        /\ pc # "parse" => OptionalAllAbsent(pdu)
        /\ pc = "done" => ret = Ok(wire.val)

\* the payload of the example (version 0x00080004, colour depth 0xCA01, name
\* "host", 64 zero IME bytes) has been parsed and written back
C15_Witness ==
    /\ MandatoryOnly
    /\ pc = "done"
    /\ wire.val = CoreMandatoryBytes(524292, 51713, LjustCut(encodeUTF16LE(Some(HostName)).val, 32), Zeros(64))
    /\ pdu.clientName = HostName \o Zeros(12)
    /\ OptionalAllAbsent(pdu)
    /\ ret = Ok(wire.val)

\* the position in ClientCoreOptional of the first field of core that is not
\* set, or one past the end when every field is set
FirstAbsent(core) ==
    LET L == ClientCoreOptional
        absent == {i \in 1..Len(L) : L[i].kind # "pad" /\ core[L[i].name] = None}
    IN  IF absent = {} THEN Len(L) + 1 ELSE CHOOSE i \in absent : \A k \in absent : i <= k

\* the bytes of the mandatory fields followed by the optional fields before
\* the first absent one
CascadeBytes(core) ==
    CatAll(<<WriteMandatory(ClientCoreMandatory, core)>>
           \o [i \in 1..(FirstAbsent(core) - 1) |-> WriteField(ClientCoreOptional[i], core)])

\* C16: when optional field j is the first absent one, writeClientCoreData
\* returns without raising, and what it has written is the mandatory fields
\* followed by exactly the optional fields before j, whatever later fields are set.
C16_WriteStopsAtFirstAbsent ==
    (mode = "core.write" /\ pc = "done") =>
        /\ ret.err = ""
        /\ ret = CascadeBytes(pdu)

-----------------------------------------------------------------------------
(* Claims about the framing of the blocks *)

DeclaredLength == FromLE(SubSeq(wire.val, 3, 4))

\* the payload has been handed to a sub-parser
HandedOver == pc = "dispatch" \/ (pc = "done" /\ pos > 0 /\ locals.header # 0)

\* C17: in parseStructure of the client and of the server parser, a payload
\* handed to a sub-parser has exactly (declared length - 4) bytes and the
\* cursor is then at the declared length; when fewer payload bytes are there
\* than declared, or the declared length is below 4, parseStructure raises
\* ParsingError and hands no payload over.
C17_FramingExact ==
    /\ HandedOver =>
          /\ Len(locals.data) = DeclaredLength - 4
          /\ pos = DeclaredLength
    /\ (pc # "read" /\ (DeclaredLength < 4 \/ Len(wire.val) < DeclaredLength)) =>
          /\ ~HandedOver
          /\ ret.err = "ParsingError"

-----------------------------------------------------------------------------
(* Claims about the server network block *)

\* C18: for a list of n channel ids writeServerNetworkData gives 4 + 2n bytes
\* when n is even and 4 + 2n + 2 bytes, the last two of them zero, when n is
\* odd, so that the number of bytes is a multiple of 4; the count written is n;
\* parseServerNetworkData of these bytes gives the same MCS channel id and the
\* same n channel ids.
C18_NetworkPadding ==
    LET n == Len(pdu.channels)
    IN  /\ pc # "write" =>
              /\ wire.err = ""
              /\ Len(wire.val) = IF n % 2 = 0 THEN 4 + 2 * n ELSE 4 + 2 * n + 2
              /\ Len(wire.val) % 4 = 0
              /\ FromLE(SubSeq(wire.val, 3, 4)) = n
              /\ n % 2 = 1 => SubSeq(wire.val, 5 + 2 * n, 6 + 2 * n) = <<0, 0>>
        /\ pc = "done" =>
              /\ ret.err = ""
              /\ ret.val.mcsChannelID = pdu.mcsChannelID
              /\ ret.val.channels = pdu.channels

\* three channel ids have been written with the pad word and read back
C18_Witness ==
    /\ pc = "done"
    /\ pdu.channels = <<1004, 65535, 0>>
    /\ pdu.mcsChannelID = 1003
    /\ Len(wire.val) = 12
    /\ ret.val.channels = pdu.channels

-----------------------------------------------------------------------------
(* Claims about the loop of ServerConnectionParser.doParse *)

MandatorySlots == {"coreData", "securityData", "networkData"}

\* the place in the order s of the block that completes core, security and
\* network, or 0 when one of them is missing
CompletedAt(s) ==
    LET done == {k \in 1..Len(s) : MandatorySlots \subseteq {s[i] : i \in 1..k}}
    IN  IF done = {} THEN 0 ELSE CHOOSE k \in done : \A j \in done : k <= j

\* C19: doParse returns a ServerDataPDU only with core, security and network
\* all parsed; it returns right after the block that completes the three, with
\* the cursor at the end of that block, whatever follows; a message channel or
\* multitransport block is in the result exactly when it stands before that
\* block; when one of the three is missing doParse does not return a PDU. The
\* bytes write gives for a PDU with the three blocks parse to a PDU without
\* message channel and multitransport blocks, which write puts last.
C19_LoopGating ==
    /\ (pc = "done" /\ ret.err = "") =>
          \A n \in MandatorySlots : ret.val[n] # None
    /\ (mode = "server.blocks" /\ pc = "done") =>
          LET k == CompletedAt(pdu.order)
              before == {pdu.order[i] : i \in 1..k}
          IN  IF k = 0 THEN ret.err # ""
              ELSE /\ ret.err = ""
                   /\ pos = Len(ServerBlocksInOrder(SubSeq(pdu.order, 1, k)).val)
                   /\ \A n \in ServerSlotNames :
                         ret.val[n] = IF n \in before THEN Some(ServerSlotSample(n)) ELSE None
    /\ (mode = "server.pdu" /\ pc = "done") =>
          IF \A n \in MandatorySlots : pdu[n] # None
          THEN /\ ret.err = ""
               /\ \A n \in ServerSlotNames :
                     ret.val[n] = IF n \in MandatorySlots THEN pdu[n] ELSE None
          ELSE ret.err # ""

\* five blocks with the message channel block before the network block and
\* the multitransport block after it, and a block of an unknown type at the
\* end: doParse has returned with the message channel block and without the
\* multitransport block
C19_Witness ==
    /\ mode = "server.blocks"
    /\ pc = "done"
    /\ pdu.order = <<"coreData", "messageChannelData", "securityData", "networkData",
                     "multitransportData">>
    /\ pdu.tail = ToLE(65535, 2) \o ToLE(4, 2)
    /\ ret.err = ""
    /\ ret.val.messageChannelData # None
    /\ ret.val.multitransportData = None
    /\ pos < Len(wire.val) - 4

====
